---- MODULE Spec2Model ----
(***************************************************************************)
(* DiamondScannerSim: two cranes on one rail feed diamonds through         *)
(* scanners into end boxes.                                                *)
(*                                                                         *)
(* Units.  Time is counted in units of 1/(FPS*TU) second, so that one      *)
(* frame (config.DT) is TU units.  Positions are counted in units of       *)
(* 1/PU millimetre.  Floating point arithmetic of the source is modelled   *)
(* by exact integer arithmetic rounded to these units.                     *)
(***************************************************************************)
EXTENDS Integers, Sequences, FiniteSets, TLC

\* ------------------------------------------------------------------------
\* Bounds of the model
\* ------------------------------------------------------------------------

\* number of distinct end boxes random.randint may return in the model
NumBoxChoices == 2

\* largest SIM_SPEED_MULTIPLIER the launcher selects
MaxMultiplier == 3

\* pickups after which the harness of the station stops calling pickup
MaxScans == 2

\* ------------------------------------------------------------------------
\* Units and configuration (Ver3/RealisticTwoClawSim/config.py)
\* ------------------------------------------------------------------------

\* time units per frame
TU == 100

\* position units per millimetre
PU == 10

FPS == 60

\* config.DT = 1/FPS second, in time units
DT == TU

UnitsPerSecond == FPS * TU

VMAX_CLAW_X == 333

A_CLAW_X == 1500

\* T_Z = timeToTravel(D_Z, 0, VMAX_CLAW_Z, A_CLAW_Z) with
\* D_Z = distance_with_time_mm(0, VMAX_CLAW_Z, A_CLAW_Z, 1.8): 1.8 seconds
T_Z == (18 * UnitsPerSecond) \div 10

D_CLAW_SAFE_DISTANCE == 80 * PU

T_SCAN == 18 * UnitsPerSecond

N_BOXES == 8

\* Python's None; box ids, indices and times are never negative
None == 0 - 1

\* the values random.randint(0, N_BOXES - 1) takes in the model
BoxChoices == { (5 * k + 1) % N_BOXES : k \in 0..(NumBoxChoices - 1) }

\* dt of one frame: config.DT * SIM_SPEED_MULTIPLIER
Multipliers == 1..MaxMultiplier

\* ------------------------------------------------------------------------
\* Arithmetic helpers
\* ------------------------------------------------------------------------

Abs(n) == IF n < 0 THEN 0 - n ELSE n

Max(a, b) == IF a >= b THEN a ELSE b

Min(a, b) == IF a <= b THEN a ELSE b

\* n / d rounded to the nearest integer (d > 0)
RoundDiv(n, d) == (2 * n + d) \div (2 * d)

RECURSIVE IsqrtB(_, _, _)
\* largest r in lo..hi with r * r <= n, by bisection
IsqrtB(n, lo, hi) ==
    IF lo >= hi THEN lo
    ELSE LET mid == (lo + hi + 1) \div 2
         IN  IF mid * mid <= n THEN IsqrtB(n, mid, hi)
                               ELSE IsqrtB(n, lo, mid - 1)

Isqrt(n) == IsqrtB(n, 0, 2 * UnitsPerSecond)

\* config.timeToTravel(D, 0, V_MAX, A): d in position units, result in time
\* units
timeToTravel(d, V_MAX, A) ==
    IF V_MAX * V_MAX * PU >= 2 * A * d
    THEN Isqrt(((UnitsPerSecond * UnitsPerSecond) \div (PU * A)) * 2 * d)
    ELSE (UnitsPerSecond * V_MAX) \div A
         + RoundDiv(2 * A * d - V_MAX * V_MAX * PU,
                    (2 * A * PU * V_MAX) \div UnitsPerSecond)

\* config.calculate_2d_travel_time
calculate_2d_travel_time(x0, y0, x1, y1) ==
    LET dx == Abs(x1 - x0)
        dy == Abs(y1 - y0)
        time_x == IF dx > 0 THEN timeToTravel(dx, VMAX_CLAW_X, A_CLAW_X) ELSE 0
        time_y == IF dy > 0 THEN timeToTravel(dy, VMAX_CLAW_X, A_CLAW_X) ELSE 0
    IN  Max(time_x, time_y)

\* ------------------------------------------------------------------------
\* DScanner (Ver2/TwoClawSim/Scanner.py, Ver3/RealisticTwoClawSim/scanner.py)
\* A station is a record; a method is an operator from the station to the
\* station after the call, and pickup also has a return value.
\* ------------------------------------------------------------------------

\* DScanner.__init__
NewScanner ==
    [state |-> "empty", timer |-> 0, ready_time |-> None,
     target_box_id |-> None, scans_done |-> 0]

\* DScanner.scan: box is the value random.randint returns
scan(s, box) ==
    IF s.state # "empty" THEN s
    ELSE [s EXCEPT !.state = "scanning", !.timer = T_SCAN,
                   !.target_box_id = box]

\* DScanner.update
update(s, dt, current_time) ==
    IF s.state = "scanning"
    THEN IF s.timer - dt <= 0
         THEN [s EXCEPT !.timer = s.timer - dt, !.state = "ready",
                        !.ready_time = current_time]
         ELSE [s EXCEPT !.timer = s.timer - dt]
    ELSE s

\* a pickup that keeps the assigned box
pickup_mut(s) ==
    IF s.state # "ready" THEN s
    ELSE [s EXCEPT !.state = "empty", !.ready_time = None,
                   !.scans_done = s.scans_done + 1]

\* DScanner.pickup: the station after the call
pickup(s) ==
    IF s.state # "ready" THEN s
    ELSE [s EXCEPT !.state = "empty", !.ready_time = None,
                   !.target_box_id = None, !.scans_done = s.scans_done + 1]

\* a pickup of Ver3 that returns the wait time
pickupReturn3_mut(s) == 0

\* DScanner.pickup of Ver3: the returned value
pickupReturn3(s) ==
    IF s.state # "ready" THEN 0 ELSE s.target_box_id

\* DScanner.pickup of Ver2: the returned value (wait_time)
pickupReturn2(s) == 0

\* DScanner.reset of Ver3
resetScanner(s) ==
    [s EXCEPT !.state = "empty", !.ready_time = None, !.timer = 0,
              !.target_box_id = None]

\* ------------------------------------------------------------------------
\* Layout (Ver3/RealisticTwoClawSim/config.py), in position units
\* ------------------------------------------------------------------------

N_SCANNERS == 2

ScannerIds == 0..(N_SCANNERS - 1)

SCANNER_Y == 60 * PU

SCANNER_1_X == (0 - 178) * PU

SCANNER_2_X == 178 * PU

\* DScanner.get_drop_zone_position of scanner_list[i]
ScannerX(i) == IF i = 0 THEN SCANNER_1_X ELSE SCANNER_2_X

BLUE_CRANE_HOME_X == (0 - 320) * PU

RED_CRANE_HOME_X == 320 * PU

PICKUP_X == 0 * PU

PICKUP_Y == 0 * PU

BOX_COLS == 4

BOX_START_X == (0 - 60) * PU

BOX_START_Y == 80 * PU

\* BOX_SPACING_X = (BOX_END_X - BOX_START_X) / (BOX_COLS - 1)
BOX_SPACING_X == (120 * PU) \div (BOX_COLS - 1)

\* BOX_SPACING_Y = (BOX_END_Y - BOX_START_Y) / (BOX_ROWS - 1)
BOX_SPACING_Y == (40 * PU) \div 1

\* config.get_end_box_positions: Box.get_position of box_list[k]
BoxX(k) == BOX_START_X + (k % BOX_COLS) * BOX_SPACING_X

BoxY(k) == BOX_START_Y + (k \div BOX_COLS) * BOX_SPACING_Y

\* ------------------------------------------------------------------------
\* Crane (Ver3/RealisticTwoClawSim/crane.py): the Track Arbiter
\* A crane is a record; self and other are crane records.
\* ------------------------------------------------------------------------

\* Two fields of a crane record are history: chk, should_yield_to was called
\* in the last step of the crane, and yld, it returned True.
\* The red crane has a third: hold, at the start of its last step it stood
\* lowered in LOWER_FOR_PICKUP with the timer run out.

\* the _move_start_x, _move_start_y, _move_total_time attributes are absent
NoMove == <<>>

movement_states ==
    {"MOVE_TO_SCANNER", "MOVE_TO_BOX", "RETURN_HOME", "MOVE_TO_START",
     "RETURN_TO_START", "RETURN_TO_HOME_WITH_DIAMOND",
     "MOVE_OUT_OF_WAY_AFTER_RIGHT_PICKUP", "MOVE_OUT_OF_WAY_AFTER_RIGHT_LOAD",
     "MOVE_TO_BOX_THEN_RIGHT_SCANNER", "MOVE_TO_HOME_EMPTY"}

blue_working_states ==
    {"PICK_AT_START", "DROP_AT_SCANNER", "MOVE_TO_SCANNER", "RETURN_TO_START",
     "RETURN_TO_HOME_WITH_DIAMOND"}

\* Crane.would_collide_with
would_collide_with(self, other) ==
    Abs(self.x - other.x) < D_CLAW_SAFE_DISTANCE

\* Crane.can_move_to_x
can_move_to_x(target_x, other) ==
    Abs(target_x - other.x) >= D_CLAW_SAFE_DISTANCE

\* Crane.is_in_deadlock_with
is_in_deadlock_with(self, other) ==
    IF ~would_collide_with(self, other) THEN FALSE
    ELSE IF ~(self.state \in movement_states /\ other.state \in movement_states)
         THEN FALSE
    ELSE IF other.color = "blue" /\ other.state \in blue_working_states
         THEN FALSE
    ELSE TRUE

\* a priority by colour alone
has_priority_over_mut(self, other) == self.color = "blue"

\* Crane.has_priority_over
has_priority_over(self, other) ==
    IF self.has_diamond /\ ~other.has_diamond THEN FALSE
    ELSE IF ~self.has_diamond /\ other.has_diamond THEN TRUE
    ELSE self.color = "blue"

\* Crane.should_yield_to
should_yield_to(self, other) ==
    IF ~is_in_deadlock_with(self, other)
    THEN would_collide_with(self, other)
    ELSE ~has_priority_over(self, other)

\* Crane.travel_time_2d from the crane's position
travel_time_2d(c, x1, y1) == calculate_2d_travel_time(c.x, c.y, x1, y1)

\* a yield that keeps the timer and the tracking attributes of the move
YieldMove_mut(c, tx, ty) == [c EXCEPT !.chk = TRUE, !.yld = TRUE]

\* a movement state yields: the tracking attributes are deleted and the
\* timer is recomputed from the current position (crane.py 590-600)
YieldMove(c, tx, ty) ==
    [c EXCEPT !.ms = NoMove, !.action_timer = travel_time_2d(c, tx, ty),
              !.chk = TRUE, !.yld = TRUE]

\* a movement state with action_timer > 0 interpolates (crane.py 602-617)
Interp(c, tx, ty, dt) ==
    LET m == IF c.ms = NoMove THEN <<c.x, c.y, c.action_timer + dt>> ELSE c.ms
        done == m[3] - c.action_timer
    IN  [c EXCEPT !.ms = m,
                  !.x = m[1] + RoundDiv((tx - m[1]) * done, m[3]),
                  !.y = m[2] + RoundDiv((ty - m[2]) * done, m[3])]

\* a movement state with action_timer = 0 arrives (crane.py 618-628)
Arrive(c, tx, ty) == [c EXCEPT !.x = tx, !.y = ty, !.ms = NoMove]

\* a movement state that consults should_yield_to before it moves; arrived
\* is the crane after the arrival branch
CheckedMove(c, other, tx, ty, dt, arrived) ==
    IF should_yield_to(c, other) THEN YieldMove(c, tx, ty)
    ELSE IF c.action_timer > 0 THEN [Interp(c, tx, ty, dt) EXCEPT !.chk = TRUE]
    ELSE [arrived EXCEPT !.chk = TRUE]

\* a movement state that moves without consulting the arbiter
UncheckedMove(c, tx, ty, dt, arrived) ==
    IF c.action_timer > 0 THEN Interp(c, tx, ty, dt) ELSE arrived

\* ------------------------------------------------------------------------
\* BlueCrane (Ver3/RealisticTwoClawSim/crane.py)
\* ------------------------------------------------------------------------

\* BlueCrane.__init__ and BlueCrane.reset
NewBlue ==
    [color |-> "blue", x |-> BLUE_CRANE_HOME_X, y |-> SCANNER_Y,
     state |-> "MOVE_TO_START",
     action_timer |-> calculate_2d_travel_time(BLUE_CRANE_HOME_X, SCANNER_Y,
                                               PICKUP_X, PICKUP_Y),
     has_diamond |-> FALSE, target_i |-> None, pick_phase |-> "None",
     drop_phase |-> "None", ms |-> NoMove, scanners_loaded |-> {},
     waiting_at_home |-> FALSE, waiting_for_red_to_clear |-> FALSE,
     chk |-> FALSE, yld |-> FALSE]

\* the scanner nearest to the home position, empty or not
nearest_empty_scanner_mut(scs) == 0

\* BlueCrane.nearest_empty_scanner: nearest to the home position
nearest_empty_scanner(scs) ==
    LET empties == {i \in ScannerIds : scs[i].state = "empty"}
        d(i) == (BLUE_CRANE_HOME_X - ScannerX(i)) * (BLUE_CRANE_HOME_X - ScannerX(i))
    IN  IF empties = {} THEN None
        ELSE CHOOSE i \in empties :
                \A j \in empties : d(i) < d(j) \/ (d(i) = d(j) /\ i <= j)

red_waits_for_right_load(r) ==
    r.state \in {"MOVE_OUT_OF_WAY_AFTER_RIGHT_PICKUP",
                 "WAIT_FOR_BLUE_TO_LOAD_RIGHT"}

\* a waiting blue that goes home whatever red and the scanners need
Blue_WAIT_mut(b, r, scs) ==
    [b EXCEPT !.state = "MOVE_TO_HOME_EMPTY",
              !.action_timer = travel_time_2d(b, BLUE_CRANE_HOME_X, SCANNER_Y)]

Blue_WAIT(b, r, scs) ==
    IF red_waits_for_right_load(r) /\ scs[1].state = "empty"
    THEN IF b.has_diamond
         THEN [b EXCEPT !.target_i = 1, !.state = "MOVE_TO_SCANNER",
                        !.action_timer = travel_time_2d(b, ScannerX(1), SCANNER_Y)]
         ELSE [b EXCEPT !.target_i = 1, !.state = "MOVE_TO_START",
                        !.action_timer = travel_time_2d(b, PICKUP_X, PICKUP_Y)]
    ELSE LET t == nearest_empty_scanner(scs)
         IN  IF t # None
             THEN [b EXCEPT !.target_i = t, !.state = "MOVE_TO_START",
                            !.action_timer = travel_time_2d(b, PICKUP_X, PICKUP_Y)]
             ELSE IF Abs(b.x - BLUE_CRANE_HOME_X) > PU \/ Abs(b.y - SCANNER_Y) > PU
             THEN [b EXCEPT !.state = "MOVE_TO_HOME_EMPTY",
                            !.action_timer =
                                travel_time_2d(b, BLUE_CRANE_HOME_X, SCANNER_Y)]
             ELSE b

ArrivePickAtStart(b) ==
    [Arrive(b, PICKUP_X, PICKUP_Y) EXCEPT !.state = "PICK_AT_START",
        !.action_timer = T_Z, !.pick_phase = "LOWER"]

Blue_MOVE_TO_START(b, r, dt) ==
    CheckedMove(b, r, PICKUP_X, PICKUP_Y, dt, ArrivePickAtStart(b))

\* a blue that, the diamond raised, lowers at the pickup zone once more
BlueAfterPick_mut(b, r, scs) ==
    [b EXCEPT !.state = "PICK_AT_START", !.action_timer = T_Z,
              !.pick_phase = "LOWER"]

\* PICK_AT_START at the end of RAISE: where to go with the diamond
BlueAfterPick(b, r, scs) ==
    IF b.waiting_for_red_to_clear /\ b.has_diamond
    THEN [b EXCEPT !.waiting_for_red_to_clear = FALSE,
                   !.state = "MOVE_OUT_OF_WAY_AFTER_RIGHT_LOAD",
                   !.action_timer = travel_time_2d(b, BLUE_CRANE_HOME_X, SCANNER_Y)]
    ELSE IF red_waits_for_right_load(r) /\ scs[1].state = "empty"
            /\ can_move_to_x(ScannerX(1), r)
    THEN [b EXCEPT !.target_i = 1, !.state = "MOVE_TO_SCANNER",
                   !.action_timer = travel_time_2d(b, ScannerX(1), SCANNER_Y)]
    ELSE LET t == nearest_empty_scanner(scs)
         IN  IF t # None
             THEN IF can_move_to_x(ScannerX(t), r)
                  THEN [b EXCEPT !.target_i = t, !.state = "MOVE_TO_SCANNER",
                                 !.action_timer =
                                     travel_time_2d(b, ScannerX(t), SCANNER_Y)]
                  ELSE [b EXCEPT !.target_i = t, !.state = "WAIT"]
             ELSE [b EXCEPT !.target_i = None,
                            !.state = "RETURN_TO_HOME_WITH_DIAMOND",
                            !.action_timer =
                                travel_time_2d(b, BLUE_CRANE_HOME_X, SCANNER_Y)]

Blue_PICK_AT_START(b, r, scs) ==
    IF b.pick_phase = "LOWER"
    THEN IF b.action_timer <= 0
         THEN [b EXCEPT !.pick_phase = "RAISE", !.action_timer = T_Z,
                        !.has_diamond = TRUE]
         ELSE b
    ELSE IF b.pick_phase = "RAISE"
    THEN IF b.action_timer <= 0
         THEN BlueAfterPick([b EXCEPT !.pick_phase = "None"], r, scs)
         ELSE b
    ELSE b

ArriveDropAtScanner(b) ==
    [Arrive(b, ScannerX(b.target_i), SCANNER_Y) EXCEPT
        !.state = "DROP_AT_SCANNER", !.action_timer = T_Z,
        !.drop_phase = "LOWER"]

BlueBadTarget(b) ==
    [b EXCEPT !.state = "RETURN_TO_START",
              !.action_timer = travel_time_2d(b, PICKUP_X, PICKUP_Y)]

Blue_MOVE_TO_SCANNER(b, r, dt) ==
    IF b.target_i = None \/ b.target_i >= N_SCANNERS THEN BlueBadTarget(b)
    ELSE CheckedMove(b, r, ScannerX(b.target_i), SCANNER_Y, dt,
                     ArriveDropAtScanner(b))

Blue_DROP_AT_SCANNER(b, r) ==
    IF b.target_i = None \/ b.target_i >= N_SCANNERS THEN BlueBadTarget(b)
    ELSE IF b.drop_phase = "LOWER"
    THEN IF b.action_timer <= 0
         THEN [b EXCEPT !.drop_phase = "RAISE", !.action_timer = T_Z,
                        !.has_diamond = FALSE]
         ELSE b
    ELSE IF b.drop_phase = "RAISE"
    THEN IF b.action_timer <= 0
         THEN [b EXCEPT !.drop_phase = "None",
                  !.scanners_loaded = @ \cup {b.target_i},
                  !.state = "RETURN_TO_START",
                  !.action_timer = travel_time_2d(b, PICKUP_X, PICKUP_Y),
                  !.waiting_for_red_to_clear =
                      IF b.target_i = 1 /\ r.state = "WAIT_FOR_BLUE_TO_LOAD_RIGHT"
                      THEN TRUE ELSE @]
         ELSE b
    ELSE b

\* BlueCrane.step calls scanner.scan() on its target in this step
BlueCallsScan(blue0, dt) ==
    /\ blue0.state = "DROP_AT_SCANNER"
    /\ blue0.target_i # None /\ blue0.target_i < N_SCANNERS
    /\ blue0.drop_phase = "LOWER"
    /\ Max(0, blue0.action_timer - dt) <= 0

\* BlueCrane.step: the scanners; box is the value random.randint returns
BlueStepScanners(blue0, scs, dt, box) ==
    IF BlueCallsScan(blue0, dt)
    THEN [scs EXCEPT ![blue0.target_i] = scan(@, box)]
    ELSE scs

Blue_RETURN_TO_START(b, r, dt) ==
    CheckedMove(b, r, PICKUP_X, PICKUP_Y, dt, ArrivePickAtStart(b))

ArriveWaitAtHome(b) ==
    [Arrive(b, BLUE_CRANE_HOME_X, SCANNER_Y) EXCEPT
        !.state = "WAIT_AT_HOME", !.waiting_at_home = TRUE]

Blue_MOVE_OUT_OF_WAY_AFTER_RIGHT_LOAD(b, dt) ==
    UncheckedMove(b, BLUE_CRANE_HOME_X, SCANNER_Y, dt, ArriveWaitAtHome(b))

Blue_RETURN_TO_HOME_WITH_DIAMOND(b, r, dt) ==
    CheckedMove(b, r, BLUE_CRANE_HOME_X, SCANNER_Y, dt, ArriveWaitAtHome(b))

Blue_WAIT_AT_HOME(b, r, scs) ==
    LET empties == {i \in ScannerIds : scs[i].state = "empty"}
        t == nearest_empty_scanner(scs)
        b1 == [b EXCEPT !.scanners_loaded = @ \ empties, !.target_i = t]
    IN  IF empties = {} THEN b
        ELSE IF can_move_to_x(ScannerX(t), r)
        THEN [b1 EXCEPT !.state = "MOVE_TO_SCANNER",
                        !.action_timer = travel_time_2d(b, ScannerX(t), SCANNER_Y),
                        !.waiting_at_home = FALSE]
        ELSE b1

Blue_MOVE_TO_HOME_EMPTY(b, dt) ==
    UncheckedMove(b, BLUE_CRANE_HOME_X, SCANNER_Y, dt,
                  [Arrive(b, BLUE_CRANE_HOME_X, SCANNER_Y) EXCEPT !.state = "WAIT"])

\* BlueCrane.step
BlueStep(blue0, r, scs, dt) ==
    LET b == [blue0 EXCEPT !.action_timer = Max(0, @ - dt), !.chk = FALSE,
                         !.yld = FALSE]
    IN  CASE b.state = "WAIT" -> Blue_WAIT(b, r, scs)
          [] b.state = "MOVE_TO_START" -> Blue_MOVE_TO_START(b, r, dt)
          [] b.state = "PICK_AT_START" -> Blue_PICK_AT_START(b, r, scs)
          [] b.state = "MOVE_TO_SCANNER" -> Blue_MOVE_TO_SCANNER(b, r, dt)
          [] b.state = "DROP_AT_SCANNER" -> Blue_DROP_AT_SCANNER(b, r)
          [] b.state = "RETURN_TO_START" -> Blue_RETURN_TO_START(b, r, dt)
          [] b.state = "MOVE_OUT_OF_WAY_AFTER_RIGHT_LOAD" ->
                Blue_MOVE_OUT_OF_WAY_AFTER_RIGHT_LOAD(b, dt)
          [] b.state = "RETURN_TO_HOME_WITH_DIAMOND" ->
                Blue_RETURN_TO_HOME_WITH_DIAMOND(b, r, dt)
          [] b.state = "WAIT_AT_HOME" -> Blue_WAIT_AT_HOME(b, r, scs)
          [] b.state = "MOVE_TO_HOME_EMPTY" -> Blue_MOVE_TO_HOME_EMPTY(b, dt)
          [] OTHER -> b

\* ------------------------------------------------------------------------
\* RedCrane (Ver3/RealisticTwoClawSim/crane.py)
\* ------------------------------------------------------------------------

\* the empty dict
EmptyDict == [j \in {} |-> 0]

\* RedCrane.__init__ and RedCrane.reset; carried remembers the box that the
\* scanner had assigned to the diamond red took last (scanner.target_box_id
\* as read when pickup() is called)
NewRed ==
    [color |-> "red", x |-> RED_CRANE_HOME_X, y |-> SCANNER_Y,
     state |-> "WAIT", action_timer |-> 0, has_diamond |-> FALSE,
     target_i |-> None, pick_phase |-> "None", drop_phase |-> "None",
     ms |-> NoMove, t_elapsed |-> 0, target_box |-> None,
     from_rightmost |-> FALSE, departure_times |-> EmptyDict, chk |-> FALSE,
     yld |-> FALSE, hold |-> FALSE, carried |-> None]

\* RedCrane.nearest_ready_scanner: nearest to the current position
nearest_ready_scanner(r, scs) ==
    LET ready == {i \in ScannerIds : scs[i].state = "ready"}
        d(i) == (r.x - ScannerX(i)) * (r.x - ScannerX(i))
                + (r.y - SCANNER_Y) * (r.y - SCANNER_Y)
    IN  IF ready = {} THEN None
        ELSE CHOOSE i \in ready :
                \A j \in ready : d(i) < d(j) \/ (d(i) = d(j) /\ i <= j)

RedReturnHome(r) ==
    [r EXCEPT !.state = "RETURN_HOME",
              !.action_timer = travel_time_2d(r, RED_CRANE_HOME_X, SCANNER_Y)]

RedBadTarget(r) == r.target_i = None \/ r.target_i >= N_SCANNERS

RedBadBox(r) == r.target_box = None \/ r.target_box >= N_BOXES

\* a visit that plans for a scanner whatever its state
RedWaitVisit_mut(r, b, scs, i) ==
    LET travel_time == travel_time_2d(r, ScannerX(i), SCANNER_Y)
        departure_time == r.t_elapsed + scs[i].timer - travel_time - T_Z
        d == r.departure_times
        d1 == IF i \notin DOMAIN d \/ departure_time < d[i]
              THEN [j \in DOMAIN d \cup {i} |->
                       IF j = i THEN departure_time ELSE d[j]]
              ELSE d
        r1 == [r EXCEPT !.departure_times = d1]
    IN  IF r.t_elapsed >= d1[i] /\ ~would_collide_with(r, b)
           /\ can_move_to_x(ScannerX(i), b)
        THEN [r1 EXCEPT !.target_i = i,
                !.target_box = scs[i].target_box_id,
                !.state = "MOVE_TO_SCANNER",
                !.action_timer = travel_time,
                !.departure_times = [j \in DOMAIN d1 \ {i} |-> d1[j]],
                !.from_rightmost = (i = 1)]
        ELSE r1

\* one iteration of the loop of WAIT over the scanners (crane.py 1101-1141)
RedWaitVisit(r, b, scs, i) ==
    IF scs[i].state # "scanning" THEN r
    ELSE LET travel_time == travel_time_2d(r, ScannerX(i), SCANNER_Y)
             departure_time == r.t_elapsed + scs[i].timer - travel_time - T_Z
             d == r.departure_times
             d1 == IF i \notin DOMAIN d \/ departure_time < d[i]
                   THEN [j \in DOMAIN d \cup {i} |->
                            IF j = i THEN departure_time ELSE d[j]]
                   ELSE d
             r1 == [r EXCEPT !.departure_times = d1]
         IN  IF r.t_elapsed >= d1[i] /\ ~would_collide_with(r, b)
                /\ can_move_to_x(ScannerX(i), b)
             THEN [r1 EXCEPT !.target_i = i,
                     !.target_box = scs[i].target_box_id,
                     !.state = "MOVE_TO_SCANNER",
                     !.action_timer = travel_time,
                     !.departure_times = [j \in DOMAIN d1 \ {i} |-> d1[j]],
                     !.from_rightmost = (i = 1)]
             ELSE r1

\* a fallback that sends red to the left scanner whatever its state
RedWaitReady_mut(r, b, scs) ==
    IF r.target_i = None /\ ~would_collide_with(r, b)
    THEN [r EXCEPT !.target_i = 0, !.target_box = scs[0].target_box_id,
            !.state = "MOVE_TO_SCANNER",
            !.action_timer = travel_time_2d(r, ScannerX(0), SCANNER_Y),
            !.from_rightmost = FALSE]
    ELSE r

\* WAIT after the loop: a ready scanner when no target was ever set
RedWaitReady(r, b, scs) ==
    LET t == nearest_ready_scanner(r, scs)
    IN  IF r.target_i = None /\ t # None /\ ~would_collide_with(r, b)
           /\ can_move_to_x(ScannerX(t), b)
        THEN [r EXCEPT !.target_i = t, !.target_box = scs[t].target_box_id,
                !.state = "MOVE_TO_SCANNER",
                !.action_timer = travel_time_2d(r, ScannerX(t), SCANNER_Y),
                !.from_rightmost = (t = 1)]
        ELSE r

\* a red that never leaves WAIT
Red_WAIT_mut(r, b, scs) == r

Red_WAIT(r, b, scs) ==
    LET r0 == RedWaitVisit(r, b, scs, 0)
        r1 == IF r0.state # "WAIT" THEN r0 ELSE RedWaitVisit(r0, b, scs, 1)
    IN  RedWaitReady(r1, b, scs)

ArriveAtScanner(r, scs) ==
    LET a == Arrive(r, ScannerX(r.target_i), SCANNER_Y)
        s_state == scs[r.target_i].state
    IN  IF s_state = "scanning"
        THEN [a EXCEPT !.state = "LOWER_FOR_PICKUP", !.action_timer = T_Z,
                       !.pick_phase = "LOWER"]
        ELSE IF s_state \in {"ready", "occupied"}
        THEN [a EXCEPT !.state = "PICK_AT_SCANNER", !.action_timer = T_Z,
                       !.pick_phase = "LOWER"]
        ELSE RedReturnHome(a)

\* a red that on its way turns to the other scanner when that one is loaded
Red_MOVE_TO_SCANNER_mut(r, b, scs, dt) ==
    LET t == IF RedBadTarget(r) THEN None ELSE 1 - r.target_i
        r1 == IF t # None /\ scs[t].state # "empty"
              THEN [r EXCEPT !.target_i = t] ELSE r
    IN  IF RedBadTarget(r1) THEN RedReturnHome(r1)
        ELSE CheckedMove(r1, b, ScannerX(r1.target_i), SCANNER_Y, dt,
                         ArriveAtScanner(r1, scs))

Red_MOVE_TO_SCANNER(r, b, scs, dt) ==
    IF RedBadTarget(r) THEN RedReturnHome(r)
    ELSE CheckedMove(r, b, ScannerX(r.target_i), SCANNER_Y, dt,
                     ArriveAtScanner(r, scs))

\* what RedCrane.step stores in target_box after scanner.pickup() returned
PickedBox(s) ==
    LET box_id == pickupReturn3(s)
    IN  IF box_id # None THEN box_id ELSE pickup(s).target_box_id

\* a red that picks up as soon as it is at the bottom
Red_LOWER_FOR_PICKUP_mut(r, scs) ==
    IF RedBadTarget(r) THEN RedReturnHome(r)
    ELSE IF r.action_timer <= 0
    THEN [r EXCEPT !.pick_phase = "RAISE", !.action_timer = T_Z,
                   !.has_diamond = TRUE,
                   !.carried = scs[r.target_i].target_box_id,
                   !.target_box = PickedBox(scs[r.target_i]),
                   !.state = "PICK_AT_SCANNER"]
    ELSE r

Red_LOWER_FOR_PICKUP(r, scs) ==
    IF RedBadTarget(r) THEN RedReturnHome(r)
    ELSE IF scs[r.target_i].state = "ready" /\ r.action_timer <= 0
    THEN [r EXCEPT !.pick_phase = "RAISE", !.action_timer = T_Z,
                   !.has_diamond = TRUE,
                   !.carried = scs[r.target_i].target_box_id,
                   !.target_box = PickedBox(scs[r.target_i]),
                   !.state = "PICK_AT_SCANNER"]
    ELSE r

\* PICK_AT_SCANNER with the diamond raised: to the box, by way of the right
\* scanner when it has work (crane.py 1294-1320 and 1376-1412)
RedAfterPick(r, b, scs, retry) ==
    IF ~r.from_rightmost /\ scs[1].state \in {"ready", "scanning"}
       /\ ~would_collide_with(r, b) /\ can_move_to_x(ScannerX(1), b)
    THEN LET tb == scs[1].target_box_id
         IN  [r EXCEPT !.target_i = 1, !.target_box = tb,
                 !.state = "MOVE_TO_BOX_THEN_RIGHT_SCANNER",
                 !.action_timer = travel_time_2d(r, BoxX(tb), BoxY(tb))]
    ELSE IF ~RedBadBox(r)
    THEN IF ~would_collide_with(r, b)
         THEN [r EXCEPT !.state = "MOVE_TO_BOX",
                 !.action_timer =
                     travel_time_2d(r, BoxX(r.target_box), BoxY(r.target_box))]
         ELSE r
    ELSE IF retry THEN r ELSE RedReturnHome(r)

\* where red waits after a pickup from the right scanner
WaitingX == SCANNER_2_X + 250 * PU

WaitingY(r) == IF ~RedBadBox(r) THEN BoxY(r.target_box) ELSE SCANNER_Y

Red_PICK_AT_SCANNER(r, b, scs) ==
    IF RedBadTarget(r) THEN RedReturnHome(r)
    ELSE IF r.action_timer <= 0 /\ r.pick_phase = "None"
    THEN LET r1 == [r EXCEPT !.target_box = IF @ = None THEN 0 ELSE @]
         IN  RedAfterPick(r1, b, scs, TRUE)
    ELSE IF r.pick_phase = "LOWER"
    THEN IF r.action_timer <= 0
         THEN [r EXCEPT !.pick_phase = "RAISE", !.action_timer = T_Z,
                        !.has_diamond = TRUE,
                        !.carried = scs[r.target_i].target_box_id,
                        !.target_box = PickedBox(scs[r.target_i])]
         ELSE r
    ELSE IF r.pick_phase = "RAISE"
    THEN IF r.action_timer <= 0
         THEN LET r1 == [r EXCEPT !.pick_phase = "None",
                            !.target_box = IF @ = None THEN 0 ELSE @]
              IN  IF r1.from_rightmost
                  THEN [r1 EXCEPT
                          !.state = "MOVE_OUT_OF_WAY_AFTER_RIGHT_PICKUP",
                          !.action_timer =
                              travel_time_2d(r1, WaitingX, WaitingY(r1))]
                  ELSE RedAfterPick(r1, b, scs, FALSE)
         ELSE r
    ELSE r

Red_MOVE_OUT_OF_WAY_AFTER_RIGHT_PICKUP(r, dt) ==
    UncheckedMove(r, WaitingX, WaitingY(r), dt,
        [Arrive(r, WaitingX, WaitingY(r)) EXCEPT
            !.state = "WAIT_FOR_BLUE_TO_LOAD_RIGHT"])

blue_is_out_of_way(b) ==
    \/ b.state \in {"WAIT_AT_HOME", "MOVE_OUT_OF_WAY_AFTER_RIGHT_LOAD", "WAIT",
                    "MOVE_TO_HOME_EMPTY"}
    \/ b.x < PICKUP_X + D_CLAW_SAFE_DISTANCE * 2

Red_WAIT_FOR_BLUE_TO_LOAD_RIGHT(r, b) ==
    IF blue_is_out_of_way(b) /\ ~RedBadBox(r)
    THEN [r EXCEPT !.ms = NoMove, !.state = "MOVE_TO_BOX",
            !.action_timer =
                travel_time_2d(r, BoxX(r.target_box), BoxY(r.target_box))]
    ELSE r

Red_MOVE_TO_BOX_THEN_RIGHT_SCANNER(r, b, dt) ==
    IF RedBadBox(r) THEN RedReturnHome(r)
    ELSE CheckedMove(r, b, BoxX(r.target_box), BoxY(r.target_box), dt,
            [Arrive(r, BoxX(r.target_box), BoxY(r.target_box)) EXCEPT
                !.state = "DROP_AT_BOX_THEN_RIGHT_SCANNER",
                !.action_timer = T_Z, !.drop_phase = "LOWER"])

\* after the drop by way of the right scanner: on to the right scanner
RedToRightScanner(r) ==
    [r EXCEPT !.target_i = 1, !.from_rightmost = TRUE,
              !.state = "MOVE_TO_SCANNER",
              !.action_timer = travel_time_2d(r, ScannerX(1), SCANNER_Y)]

Red_DROP_AT_BOX_THEN_RIGHT_SCANNER(r, b) ==
    IF RedBadBox(r) THEN RedReturnHome(r)
    ELSE IF r.action_timer <= 0 /\ r.drop_phase = "None"
    THEN IF ~would_collide_with(r, b) /\ can_move_to_x(ScannerX(1), b)
         THEN RedToRightScanner(r)
         ELSE IF ~would_collide_with(r, b) THEN RedReturnHome(r) ELSE r
    ELSE IF r.drop_phase = "LOWER"
    THEN IF r.action_timer <= 0
         THEN [r EXCEPT !.drop_phase = "RAISE", !.action_timer = T_Z,
                        !.has_diamond = FALSE]
         ELSE r
    ELSE IF r.drop_phase = "RAISE"
    THEN IF r.action_timer <= 0
         THEN LET r1 == [r EXCEPT !.drop_phase = "None"]
              IN  IF ~would_collide_with(r1, b) /\ can_move_to_x(ScannerX(1), b)
                  THEN RedToRightScanner(r1)
                  ELSE RedReturnHome(r1)
         ELSE r
    ELSE r

Red_MOVE_TO_BOX(r, b, dt) ==
    IF RedBadBox(r) THEN RedReturnHome(r)
    ELSE CheckedMove(r, b, BoxX(r.target_box), BoxY(r.target_box), dt,
            [Arrive(r, BoxX(r.target_box), BoxY(r.target_box)) EXCEPT
                !.state = "DROP_AT_BOX", !.action_timer = T_Z,
                !.drop_phase = "LOWER"])

\* DROP_AT_BOX with the diamond dropped: to the left scanner after a pickup
\* from the right one, else home (crane.py 1680-1710 and 1736-1769)
RedAfterDrop(r, b, scs) ==
    IF r.from_rightmost /\ scs[0].state \in {"ready", "scanning"}
       /\ ~would_collide_with(r, b) /\ can_move_to_x(ScannerX(0), b)
    THEN [r EXCEPT !.target_i = 0, !.target_box = scs[0].target_box_id,
            !.from_rightmost = FALSE, !.state = "MOVE_TO_SCANNER",
            !.action_timer = travel_time_2d(r, ScannerX(0), SCANNER_Y)]
    ELSE LET r1 == [r EXCEPT !.from_rightmost = FALSE]
         IN  IF ~would_collide_with(r1, b) THEN RedReturnHome(r1) ELSE r1

Red_DROP_AT_BOX(r, b, scs) ==
    IF RedBadBox(r) THEN RedReturnHome(r)
    ELSE IF r.action_timer <= 0 /\ r.drop_phase = "None"
    THEN RedAfterDrop(r, b, scs)
    ELSE IF r.drop_phase = "LOWER"
    THEN IF r.action_timer <= 0
         THEN [r EXCEPT !.drop_phase = "RAISE", !.action_timer = T_Z,
                        !.has_diamond = FALSE]
         ELSE r
    ELSE IF r.drop_phase = "RAISE"
    THEN IF r.action_timer <= 0
         THEN RedAfterDrop([r EXCEPT !.drop_phase = "None"], b, scs)
         ELSE r
    ELSE r

Red_RETURN_HOME(r, b, dt) ==
    CheckedMove(r, b, RED_CRANE_HOME_X, SCANNER_Y, dt,
        [Arrive(r, RED_CRANE_HOME_X, SCANNER_Y) EXCEPT !.state = "WAIT"])

\* RedCrane.step: the crane
RedStep(red0, b, scs, dt) ==
    LET r == [red0 EXCEPT !.action_timer = Max(0, @ - dt),
                          !.t_elapsed = @ + dt, !.chk = FALSE, !.yld = FALSE,
                          !.hold = (red0.state = "LOWER_FOR_PICKUP"
                                    /\ red0.action_timer = 0)]
    IN  CASE r.state = "WAIT" -> Red_WAIT(r, b, scs)
          [] r.state = "MOVE_TO_SCANNER" -> Red_MOVE_TO_SCANNER(r, b, scs, dt)
          [] r.state = "LOWER_FOR_PICKUP" -> Red_LOWER_FOR_PICKUP(r, scs)
          [] r.state = "PICK_AT_SCANNER" -> Red_PICK_AT_SCANNER(r, b, scs)
          [] r.state = "MOVE_OUT_OF_WAY_AFTER_RIGHT_PICKUP" ->
                Red_MOVE_OUT_OF_WAY_AFTER_RIGHT_PICKUP(r, dt)
          [] r.state = "WAIT_FOR_BLUE_TO_LOAD_RIGHT" ->
                Red_WAIT_FOR_BLUE_TO_LOAD_RIGHT(r, b)
          [] r.state = "MOVE_TO_BOX_THEN_RIGHT_SCANNER" ->
                Red_MOVE_TO_BOX_THEN_RIGHT_SCANNER(r, b, dt)
          [] r.state = "DROP_AT_BOX_THEN_RIGHT_SCANNER" ->
                Red_DROP_AT_BOX_THEN_RIGHT_SCANNER(r, b)
          [] r.state = "MOVE_TO_BOX" -> Red_MOVE_TO_BOX(r, b, dt)
          [] r.state = "DROP_AT_BOX" -> Red_DROP_AT_BOX(r, b, scs)
          [] r.state = "RETURN_HOME" -> Red_RETURN_HOME(r, b, dt)
          [] OTHER -> r

\* RedCrane.step calls scanner.pickup() on its target in this step
RedCallsPickup(red0, scs, dt) ==
    LET timer == Max(0, red0.action_timer - dt)
    IN  /\ ~RedBadTarget(red0)
        /\ timer <= 0
        /\ \/ red0.state = "LOWER_FOR_PICKUP"
              /\ scs[red0.target_i].state = "ready"
           \/ red0.state = "PICK_AT_SCANNER" /\ red0.pick_phase = "LOWER"

\* RedCrane.step: the scanners
RedStepScanners(red0, scs, dt) ==
    IF RedCallsPickup(red0, scs, dt)
    THEN [scs EXCEPT ![red0.target_i] = pickup(@)]
    ELSE scs

\* a red that calls add_diamond() when it has raised
RedCallsAddDiamond_mut(red0, dt) ==
    /\ red0.state \in {"DROP_AT_BOX", "DROP_AT_BOX_THEN_RIGHT_SCANNER"}
    /\ ~RedBadBox(red0)
    /\ red0.drop_phase = "RAISE"
    /\ Max(0, red0.action_timer - dt) <= 0

\* RedCrane.step calls add_diamond() on its target box in this step
RedCallsAddDiamond(red0, dt) ==
    /\ red0.state \in {"DROP_AT_BOX", "DROP_AT_BOX_THEN_RIGHT_SCANNER"}
    /\ ~RedBadBox(red0)
    /\ red0.drop_phase = "LOWER"
    /\ Max(0, red0.action_timer - dt) <= 0

\* Box.add_diamond on the target box (endBox.py)
RedStepBoxes(red0, bx, dt) ==
    IF RedCallsAddDiamond(red0, dt)
    THEN [bx EXCEPT ![red0.target_box] = @ + 1]
    ELSE bx

\* RedCrane.step: the fields of the blue crane it writes
RedStepBlue(red0, b, dt) ==
    LET timer == Max(0, red0.action_timer - dt)
    IN  IF red0.state = "PICK_AT_SCANNER" /\ ~RedBadTarget(red0)
           /\ red0.pick_phase = "RAISE" /\ timer <= 0 /\ red0.from_rightmost
        THEN [b EXCEPT !.scanners_loaded = @ \ {1}]
        ELSE IF red0.state = "WAIT_FOR_BLUE_TO_LOAD_RIGHT"
                /\ blue_is_out_of_way(b) /\ ~RedBadBox(red0)
        THEN [b EXCEPT !.waiting_for_red_to_clear = TRUE]
        ELSE b

\* ------------------------------------------------------------------------
\* State
\* ------------------------------------------------------------------------
VARIABLES
    blue,               \* SimulationController.blue_crane
    red,                \* SimulationController.red_crane
    scanners,           \* SimulationController.scanner_list
    boxes,              \* diamond_count of each Box of box_list
    t_elapsed,          \* SimulationController.t_elapsed
    simulation_started, \* SimulationController.simulation_started
    diamonds_delivered, \* SimulationController.diamonds_delivered
    diamonds_scanned,   \* SimulationController.diamonds_scanned
    total_ready_wait_time, \* SimulationController.total_ready_wait_time
    is_paused,          \* SimulationController.is_paused
    multiplier,         \* config.SIM_SPEED_MULTIPLIER, set by the launcher
    pc,                 \* "run", or "skip" inside the loop of skip_to_time
    skip,               \* target_time and was_paused of skip_to_time, and
                        \* history: scans were counted when it was called
    tokensCreated,      \* history: pickups from the source since the reset
    readyPlan,          \* history: for every scanner that stands ready, the
                        \* time by which red can have reached and lowered
                        \* to it from where it was when the scanner became
                        \* ready, and whether red has been held up since
    last,               \* history: the handler that ran last
    station,    \* harness: a DScanner driven through its public methods
    stVer,      \* harness: the variant of DScanner ("Ver2" or "Ver3")
    stCall,     \* harness: the last call, its outcome and the state before
    normal,     \* history: the snapshot normal stepping took at the skip target
    ff,         \* harness: the closure of fast_forward_to (Ver1 and Ver2)
    v2,         \* the simulation of Ver2 (runSimulation's closure)
    dual        \* the simulation of Ver3.5 (its SimulationController)

simVars == <<blue, red, scanners, boxes, t_elapsed, simulation_started,
             diamonds_delivered, diamonds_scanned, total_ready_wait_time,
             is_paused, multiplier, pc, skip, tokensCreated, readyPlan,
             last>>

stVars == <<station, stVer, stCall>>

seekVars == <<normal, ff>>

auxVars == <<v2, dual>>

harnessVars == <<stVars, seekVars, auxVars>>

vars == <<simVars, harnessVars>>

\* ------------------------------------------------------------------------
\* SimulationController (Ver3/RealisticTwoClawSim/simulation.py)
\* ------------------------------------------------------------------------

\* seconds of RedCrane.t_elapsed after which the model stops stepping
MaxSeconds == 52

\* the target times, in seconds, typed into the skip box
SkipSeconds == {0, 42}

RECURSIVE SumOver(_, _)
SumOver(f, S) ==
    IF S = {} THEN 0
    ELSE LET k == CHOOSE k \in S : TRUE
         IN  f[k] + SumOver(f, S \ {k})

\* sum(box.get_count() for box in self.box_list)
BoxTotal(bx) == SumOver(bx, DOMAIN bx)

\* sum(scanner.scans_done for scanner in self.scanner_list)
ScansTotal(scs) == SumOver([i \in ScannerIds |-> scs[i].scans_done], ScannerIds)

NoSkip == [target_time |-> 0, was_paused |-> FALSE, found_scanned |-> FALSE]

\* no scanner stands ready and red has not been held up
NoPlan == [held |-> FALSE, plan |-> [i \in ScannerIds |-> <<>>]]

\* no snapshot was taken
NoSnapshot == <<>>

\* the closure of main() in TwoClaw.py after reset_simulation(): t_elapsed,
\* the number of step_sim calls since the last reset_simulation, and the
\* last call of fast_forward_to with the time it found, whether it reset
\* and the time steps it passed to step_sim
NewFF(ver) ==
    [ver |-> ver, t_elapsed |-> 0, steps |-> 0, is_paused |-> FALSE,
     pc |-> "run", target |-> 0, t_before |-> 0, did_reset |-> FALSE,
     dts |-> {}, op |-> "new"]

\* ------------------------------------------------------------------------
\* Ver2 (TwoClawSim): runSimulation with its two cranes on one rail
\* (Crane.py), its stations (Scanner.py), its boxes (endBox.py) and the
\* ready-wait bookkeeping of step_sim (TwoClaw.py). Positions are in 1/10000
\* of a plot unit; a departure time is kept multiplied by TravelDen
\* ------------------------------------------------------------------------

\* the seconds of simulated time of Ver2
MaxSeconds2 == 50

START_X2 == 12000

END_X2 == 100000

CENTER2 == 55000

SPACING2 == 12000

\* config.T_Z of Ver2: timeToTravel(D_Z, 0, VMAX_CLAW_Z, A_CLAW_Z)
T_Z2 == UnitsPerSecond \div 6 + (491 * UnitsPerSecond) \div 300

\* travel_time(x0, x1) * TravelDen = Abs(x1 - x0) * c.k
TravelDen == 111

\* config.py as it is (millimetres: VMAX_CLAW_X 333, D_CLAW_SAFE_DISTANCE
\* 80); step is v_traverse * DT and safe is D_CLAW_SAFE_DISTANCE / 10
ShippedConfig2 == [name |-> "mm", step |-> 5550, safe |-> 80000, k |-> 2]

\* what the user enters in the dialog: the centimetre values its labels
\* ask for (33.3 and 8), a safe distance of 100, and a negative one
DialogEntries2 ==
    {[name |-> "cm", step |-> 555, safe |-> 8000, k |-> 20],
     [name |-> "wide", step |-> 5550, safe |-> 100000, k |-> 2],
     [name |-> "negative", step |-> 5550, safe |-> 0 - 80000, k |-> 2]}

\* ConfigDialog.validate_inputs: no error is found (every value is a
\* number greater than 0)
validate_inputs(c) == c.step > 0 /\ c.safe > 0

\* the configurations a simulation starts with: config.py, or what apply
\* saved after validate_inputs found no error
Configs2 == {ShippedConfig2} \cup {c \in DialogEntries2 : validate_inputs(c)}

POS_X2(n, i) ==
    IF n = 1 THEN CENTER2
    ELSE CENTER2 - (SPACING2 * (n - 1)) \div 2 + i * SPACING2

\* the bookkeeping of the red crane that the model adds: carried is the box
\* the station assigned to the token red holds
NewRed2 ==
    [x |-> END_X2, state |-> "WAIT", action_timer |-> 0,
     has_diamond |-> FALSE, target_i |-> None, departure_time |-> None,
     time_under_scanner |-> 0, pick_phase |-> "None", drop_phase |-> "None",
     target_box |-> None, carried |-> None]

NewBlue2 ==
    [x |-> START_X2, state |-> "PICK_AT_START", action_timer |-> T_Z2,
     has_diamond |-> FALSE, target_i |-> None, pick_phase |-> "LOWER",
     drop_phase |-> "None"]

\* runSimulation(N_SCANNERS) up to its first frame, reset_simulation
\* included; ready_spent, departed and dropped are history: the time the
\* stations stood ready before their pickups, the station red left WAIT for
\* with its state in that tick, and the last deposit
NewV2(n, c) ==
    [n |-> n, c |-> c, t_elapsed |-> 0, delivered_total |-> 0,
     total_ready_wait |-> 0,
     ready_wait_start |-> [i \in 0..(n - 1) |-> None],
     scanners |-> [i \in 0..(n - 1) |-> NewScanner],
     boxes |-> [b \in BoxChoices |-> 0],
     blue |-> NewBlue2, red |-> NewRed2,
     ready_spent |-> 0, departed |-> <<>>, dropped |-> <<>>,
     op |-> "new"]

\* ------------------------------------------------------------------------
\* Ver3.5 (RealisticDualClawSim): one crane body with a blue and a red claw
\* over a moving plate. config.py and scanner.py of this variant are not in
\* the source tree: the layout, the travel times and the scanner are those
\* of Ver3, the claw offsets and the scan times are chosen below. The clock
\* and the counters (t_elapsed, diamonds_delivered, diamonds_scanned,
\* scans_done, Box.diamond_count), which no decision of the crane, the plate
\* or the coordinator reads, are left out of the record.
\* ------------------------------------------------------------------------

\* a scan time short enough for the left scanner to be ready before blue
\* has loaded the right one, in seconds
ShortScan3 == 6

\* the 300 ms a claw settles after raising
SETTLE3 == (3 * UnitsPerSecond) \div 10

\* config of Ver3.5: claw offsets from the crane body, the rail level, the
\* plate position that brings START to the rail, the scan time
DualConfigs ==
    {[blue_off |-> 0 - 40 * PU, red_off |-> 40 * PU, home_x |-> 0 * PU,
      crane_y |-> SCANNER_Y, plate_home |-> SCANNER_Y - PICKUP_Y,
      t_scan |-> t] : t \in {ShortScan3 * UnitsPerSecond, T_SCAN}}

\* config.calculate_x_travel_time and config.calculate_y_travel_time
calculate_x_travel_time(x0, x1) ==
    IF x0 = x1 THEN 0 ELSE timeToTravel(Abs(x1 - x0), VMAX_CLAW_X, A_CLAW_X)

\* MovingPlate.__init__ and MovingPlate.reset; target_y is <<>> for None
NewPlate(c) ==
    [y |-> c.plate_home, state |-> "IDLE", target_y |-> <<>>,
     action_timer |-> 0, ms |-> NoMove]

\* DualClawCrane.__init__ and reset: the crane body; target_x is <<>> for
\* None
NewBody(c) ==
    [x |-> c.home_x, crane_state |-> "IDLE", target_x |-> <<>>,
     action_timer |-> 0, ms |-> NoMove]

\* SimulationController.__init__ and full_reset; cmd and op are history:
\* coordinate_movements gave a movement command in the last tick, and the
\* last operation
NewDual(c) ==
    [c |-> c, coordinator_state |-> "INIT", coordinator_timer |-> 0,
     plate |-> NewPlate(c), crane |-> NewBody(c),
     scanners |-> [i \in ScannerIds |-> NewScanner],
     blue_state |-> "IDLE", blue_has_diamond |-> FALSE,
     blue_has_buffered_diamond |-> FALSE, blue_target_scanner |-> None,
     blue_timer |-> 0, blue_phase |-> "None",
     cycle_step |-> 0, left_scanner_filled |-> FALSE,
     right_scanner_filled |-> FALSE,
     red_state |-> "IDLE", red_has_diamond |-> FALSE,
     red_source_scanner |-> None, red_target_box |-> None,
     red_timer |-> 0, red_phase |-> "None",
     red_waiting_for_blue_refill |-> FALSE, red_early_arrival |-> FALSE,
     cmd |-> FALSE, op |-> "new"]

\* position after the part 1 - timer/total of the way from start to target
Interp3(start, target, timer, total) ==
    start + RoundDiv((target - start) * (total - timer), total)

\* MovingPlate.move_to
plate_move_to(p, target_y) ==
    IF Abs(p.y - target_y) < 1 * PU
    THEN [p EXCEPT !.state = "IDLE", !.target_y = <<>>, !.action_timer = 0]
    ELSE [p EXCEPT !.state = "MOVING_TO_TARGET", !.target_y = <<target_y>>,
                   !.action_timer = calculate_x_travel_time(p.y, target_y),
                   !.ms = NoMove]

\* MovingPlate.step
plate_step(p, dt) ==
    IF p.state # "MOVING_TO_TARGET" THEN p
    ELSE LET timer == Max(0, p.action_timer - dt)
             ms == IF p.ms = NoMove THEN <<p.y, timer + dt>> ELSE p.ms
         IN  IF timer > 0
             THEN [p EXCEPT !.action_timer = timer, !.ms = ms,
                     !.y = Interp3(ms[1], p.target_y[1], timer, ms[2])]
             ELSE [p EXCEPT !.action_timer = timer, !.y = p.target_y[1],
                     !.ms = NoMove, !.state = "IDLE", !.target_y = <<>>]

\* MovingPlate.is_at_position with the default tolerance of 5 mm
is_at_position(p, target_y) == Abs(p.y - target_y) < 5 * PU

\* DualClawCrane.move_to_x
move_to_x(k, target_x) ==
    IF Abs(k.x - target_x) < 1 * PU
    THEN [k EXCEPT !.crane_state = "IDLE"]
    ELSE [k EXCEPT !.crane_state = "MOVING_TO_X", !.target_x = <<target_x>>,
                   !.action_timer = calculate_x_travel_time(k.x, target_x),
                   !.ms = NoMove]

\* DualClawCrane.step: the X movement of the crane body
body_step(k, dt) ==
    IF k.crane_state # "MOVING_TO_X" THEN k
    ELSE LET timer == Max(0, k.action_timer - dt)
             ms == IF k.ms = NoMove THEN <<k.x, timer + dt>> ELSE k.ms
         IN  IF timer > 0
             THEN [k EXCEPT !.action_timer = timer, !.ms = ms,
                     !.x = Interp3(ms[1], k.target_x[1], timer, ms[2])]
             ELSE [k EXCEPT !.action_timer = timer, !.x = k.target_x[1],
                     !.ms = NoMove, !.crane_state = "IDLE",
                     !.target_x = <<>>]

\* DScanner.scan with the scan time of the configuration
scan3(sc, box, t_scan) ==
    IF sc.state # "empty" THEN sc ELSE [scan(sc, box) EXCEPT !.timer = t_scan]

\* a blue claw that never answers red's call for a refill
Blue_WAITING_FOR_RED_mut(s) == s

\* step_blue_claw in WAITING_FOR_RED: the buffered diamond goes to the
\* scanner red has just emptied
Blue_WAITING_FOR_RED(s) ==
    IF s.red_waiting_for_blue_refill /\ s.red_source_scanner # None
    THEN [s EXCEPT !.blue_target_scanner = s.red_source_scanner,
            !.blue_has_diamond = TRUE,
            !.blue_has_buffered_diamond = FALSE,
            !.blue_state = "MOVE_TO_SCANNER"]
    ELSE s

\* DualClawCrane.step_blue_claw; box is the box scan() draws
step_blue_claw(s, dt, box) ==
    LET timer == Max(0, s.blue_timer - dt)
        timer2 == Max(0, timer - dt)
        t == s.blue_target_scanner
    IN
    IF s.blue_state = "IDLE"
    THEN IF ~s.blue_has_diamond /\ ~s.blue_has_buffered_diamond
         THEN IF s.cycle_step < 2
              THEN IF ~s.left_scanner_filled
                   THEN [s EXCEPT !.blue_target_scanner = 0,
                           !.blue_state = "GO_TO_START", !.blue_timer = 0]
                   ELSE IF ~s.right_scanner_filled
                   THEN [s EXCEPT !.blue_target_scanner = 1,
                           !.blue_state = "GO_TO_START", !.blue_timer = 0]
                   ELSE s
              ELSE [s EXCEPT !.blue_target_scanner = None,
                      !.blue_state = "GO_TO_START", !.blue_timer = 0]
         ELSE s
    ELSE IF s.blue_state = "GO_TO_START"
    THEN IF /\ is_at_position(s.plate, s.c.crane_y)
            /\ s.plate.state = "IDLE"
            /\ s.crane.crane_state = "IDLE"
            /\ Abs(s.crane.x + s.c.blue_off - PICKUP_X) < 2 * PU
         THEN [s EXCEPT !.blue_state = "PICK_AT_START", !.blue_timer = T_Z,
                 !.blue_phase = "LOWER"]
         ELSE s
    ELSE IF s.blue_state = "PICK_AT_START"
    THEN IF s.blue_phase = "LOWER"
         THEN IF timer > 0 THEN [s EXCEPT !.blue_timer = timer]
              ELSE [s EXCEPT !.blue_has_diamond = TRUE,
                      !.blue_phase = "RAISE", !.blue_timer = T_Z]
         ELSE IF s.blue_phase = "RAISE"
         THEN IF timer > 0 THEN [s EXCEPT !.blue_timer = timer]
              ELSE [s EXCEPT !.blue_phase = "SETTLE", !.blue_timer = SETTLE3]
         ELSE IF s.blue_phase = "SETTLE"
         THEN IF timer2 > 0 THEN [s EXCEPT !.blue_timer = timer2]
              ELSE IF s.cycle_step < 2
              THEN [s EXCEPT !.blue_timer = timer2, !.blue_phase = "None",
                      !.blue_state = "MOVE_TO_SCANNER"]
              ELSE [s EXCEPT !.blue_timer = timer2, !.blue_phase = "None",
                      !.blue_has_buffered_diamond = TRUE,
                      !.blue_has_diamond = FALSE,
                      !.blue_state = "WAITING_FOR_RED"]
         ELSE [s EXCEPT !.blue_timer = timer]
    ELSE IF s.blue_state = "MOVE_TO_SCANNER"
    THEN IF /\ s.crane.crane_state = "IDLE"
            /\ Abs(s.crane.x + s.c.blue_off - ScannerX(t)) < 2 * PU
         THEN [s EXCEPT !.blue_state = "DROP_AT_SCANNER", !.blue_timer = T_Z,
                 !.blue_phase = "LOWER"]
         ELSE s
    ELSE IF s.blue_state = "DROP_AT_SCANNER"
    THEN IF s.blue_phase = "LOWER"
         THEN IF timer > 0 THEN [s EXCEPT !.blue_timer = timer]
              ELSE [s EXCEPT !.blue_has_diamond = FALSE,
                      !.scanners[t] = scan3(@, box, s.c.t_scan),
                      !.red_waiting_for_blue_refill =
                          IF @ /\ s.red_source_scanner = t THEN FALSE ELSE @,
                      !.blue_phase = "RAISE", !.blue_timer = T_Z]
         ELSE IF s.blue_phase = "RAISE"
         THEN IF timer > 0 THEN [s EXCEPT !.blue_timer = timer]
              ELSE [s EXCEPT !.blue_phase = "SETTLE", !.blue_timer = SETTLE3]
         ELSE IF s.blue_phase = "SETTLE"
         THEN IF timer2 > 0 THEN [s EXCEPT !.blue_timer = timer2]
              ELSE [s EXCEPT !.blue_timer = timer2, !.blue_phase = "None",
                      !.left_scanner_filled = IF t = 0 THEN TRUE ELSE @,
                      !.right_scanner_filled = IF t = 1 THEN TRUE ELSE @,
                      !.cycle_step =
                          IF t = 0 /\ @ = 0 THEN 1
                          ELSE IF t = 1 /\ @ = 1 THEN 2 ELSE @,
                      !.blue_target_scanner = None,
                      !.blue_state = "IDLE"]
         ELSE [s EXCEPT !.blue_timer = timer]
    ELSE IF s.blue_state = "WAITING_FOR_RED" THEN Blue_WAITING_FOR_RED(s)
    ELSE s

\* one pass of the loop of the red claw's IDLE over scanner i; acc holds
\* target_scanner, earliest_ready_time (None for inf), use_early_arrival and
\* whether the loop has met its break
RedLook(s, acc, i) ==
    LET sc == s.scanners[i]
    IN  IF acc.brk THEN acc
        ELSE IF sc.state = "ready"
        THEN [target |-> i, earliest |-> 0, early |-> FALSE, brk |-> TRUE]
        ELSE IF sc.state = "scanning" /\ s.cycle_step >= 2
        THEN IF /\ acc.earliest = None \/ sc.timer < acc.earliest
                /\ calculate_x_travel_time(s.crane.x, ScannerX(i)) + T_Z
                       < sc.timer
             THEN [target |-> i, earliest |-> sc.timer, early |-> TRUE,
                   brk |-> FALSE]
             ELSE acc
        ELSE acc

\* the pickup at the bottom of the red claw's lowering
RedPick3(s) ==
    LET i == s.red_source_scanner
        box_id == pickupReturn3(s.scanners[i])
    IN  [s EXCEPT !.red_has_diamond = TRUE,
            !.scanners[i] = [pickup(@) EXCEPT !.scans_done = 0],
            !.red_target_box = IF box_id # None THEN box_id ELSE @,
            !.red_waiting_for_blue_refill = TRUE,
            !.red_phase = "RAISE", !.red_timer = T_Z]

\* DualClawCrane.step_red_claw
step_red_claw(s, dt) ==
    LET timer == Max(0, s.red_timer - dt)
        timer2 == Max(0, timer - dt)
        i == s.red_source_scanner
    IN
    IF s.red_state = "IDLE"
    THEN IF s.red_has_diamond
            \/ (s.cycle_step >= 2 /\ ~s.blue_has_buffered_diamond)
         THEN s
         ELSE LET a0 == [target |-> None, earliest |-> None,
                         early |-> FALSE, brk |-> FALSE]
                  a == RedLook(s, RedLook(s, a0, 0), 1)
              IN  IF a.target # None
                  THEN [s EXCEPT !.red_source_scanner = a.target,
                          !.red_target_box =
                              s.scanners[a.target].target_box_id,
                          !.red_early_arrival = a.early,
                          !.red_state = "GO_TO_SCANNER", !.red_timer = 0]
                  ELSE s
    ELSE IF s.red_state = "GO_TO_SCANNER"
    THEN IF /\ s.crane.crane_state = "IDLE"
            /\ Abs(s.crane.x + s.c.red_off - ScannerX(i)) < 2 * PU
            /\ s.red_early_arrival \/ s.scanners[i].state = "ready"
         THEN [s EXCEPT !.red_state = "PICK_AT_SCANNER", !.red_timer = T_Z,
                 !.red_phase = "LOWER"]
         ELSE s
    ELSE IF s.red_state = "PICK_AT_SCANNER"
    THEN IF s.red_phase = "LOWER"
         THEN IF timer > 0 THEN [s EXCEPT !.red_timer = timer]
              ELSE IF s.scanners[i].state = "ready" THEN RedPick3(s)
              ELSE [s EXCEPT !.red_phase = "WAIT_AT_BOTTOM", !.red_timer = 0]
         ELSE IF s.red_phase = "WAIT_AT_BOTTOM"
         THEN IF s.scanners[i].state = "ready" THEN RedPick3(s)
              ELSE [s EXCEPT !.red_timer = timer]
         ELSE IF s.red_phase = "RAISE"
         THEN IF timer > 0 THEN [s EXCEPT !.red_timer = timer]
              ELSE [s EXCEPT !.red_phase = "SETTLE", !.red_timer = SETTLE3]
         ELSE IF s.red_phase = "SETTLE"
         THEN IF timer2 > 0 THEN [s EXCEPT !.red_timer = timer2]
              ELSE [s EXCEPT !.red_timer = timer2, !.red_phase = "None",
                      !.red_state = IF ~s.red_waiting_for_blue_refill
                                    THEN "MOVE_TO_BOX"
                                    ELSE "WAIT_FOR_BLUE_REFILL"]
         ELSE [s EXCEPT !.red_timer = timer]
    ELSE IF s.red_state = "WAIT_FOR_BLUE_REFILL"
    THEN IF ~s.red_waiting_for_blue_refill
         THEN [s EXCEPT !.red_state = "MOVE_TO_BOX"]
         ELSE s
    ELSE IF s.red_state = "MOVE_TO_BOX"
    THEN IF /\ is_at_position(s.plate, s.c.crane_y - BoxY(s.red_target_box))
            /\ s.plate.state = "IDLE"
            /\ s.crane.crane_state = "IDLE"
            /\ Abs(s.crane.x + s.c.red_off - BoxX(s.red_target_box)) < 2 * PU
         THEN [s EXCEPT !.red_state = "DROP_AT_BOX", !.red_timer = T_Z,
                 !.red_phase = "LOWER"]
         ELSE s
    ELSE IF s.red_state = "DROP_AT_BOX"
    THEN IF s.red_phase = "LOWER"
         THEN IF timer > 0 THEN [s EXCEPT !.red_timer = timer]
              ELSE [s EXCEPT !.red_has_diamond = FALSE,
                      !.red_phase = "RAISE", !.red_timer = T_Z]
         ELSE IF s.red_phase = "RAISE"
         THEN IF timer > 0 THEN [s EXCEPT !.red_timer = timer]
              ELSE [s EXCEPT !.red_phase = "SETTLE", !.red_timer = SETTLE3]
         ELSE IF s.red_phase = "SETTLE"
         THEN IF timer2 > 0 THEN [s EXCEPT !.red_timer = timer2]
              ELSE [s EXCEPT !.red_timer = timer2, !.red_phase = "None",
                      !.red_source_scanner = None, !.red_target_box = None,
                      !.red_state = "IDLE"]
         ELSE [s EXCEPT !.red_timer = timer]
    ELSE s

\* a coordinator that does not look at the claws before it commands a move
ClawBusy3_mut(s) == FALSE

\* coordinate_movements: a claw is picking or dropping, or has a phase
ClawBusy3(s) ==
    \/ s.blue_state \in {"PICK_AT_START", "DROP_AT_SCANNER"}
    \/ s.red_state \in {"PICK_AT_SCANNER", "DROP_AT_BOX"}
    \/ s.blue_phase # "None" \/ s.red_phase # "None"

\* coordinate_movements: plate to target_plate_y unless it is there, crane
\* to target_crane_x when farther than 2 mm from it
Command3(s, plate_y, crane_x) ==
    LET to_plate == plate_y # <<>> /\ ~is_at_position(s.plate, plate_y[1])
        to_crane == Abs(s.crane.x - crane_x) > 2 * PU
    IN  [s EXCEPT !.plate = IF to_plate THEN plate_move_to(@, plate_y[1])
                            ELSE @,
                  !.crane = IF to_crane THEN move_to_x(@, crane_x) ELSE @,
                  !.cmd = to_plate \/ to_crane]

\* SimulationController.coordinate_movements
coordinate_movements(s, dt) ==
    LET s1 == [s EXCEPT !.coordinator_timer = Max(0, @ - dt), !.cmd = FALSE]
    IN  IF s1.coordinator_state = "INIT"
        THEN IF s1.coordinator_timer <= 0
             THEN [s1 EXCEPT !.crane = move_to_x(@, s.c.home_x),
                     !.cmd = TRUE,
                     !.coordinator_state = "RUNNING",
                     !.coordinator_timer = UnitsPerSecond \div 2]
             ELSE s1
        ELSE IF s1.coordinator_state # "RUNNING" \/ ClawBusy3(s1) THEN s1
        ELSE IF s1.red_state = "MOVE_TO_BOX"
        THEN IF s1.red_target_box # None
             THEN Command3(s1, <<s.c.crane_y - BoxY(s1.red_target_box)>>,
                           BoxX(s1.red_target_box) - s.c.red_off)
             ELSE s1
        ELSE IF s1.red_state = "GO_TO_SCANNER"
        THEN IF s1.red_source_scanner # None
             THEN Command3(s1, <<>>,
                           ScannerX(s1.red_source_scanner) - s.c.red_off)
             ELSE s1
        ELSE IF s1.blue_state = "MOVE_TO_SCANNER"
        THEN IF s1.blue_target_scanner # None
             THEN Command3(s1, <<>>,
                           ScannerX(s1.blue_target_scanner) - s.c.blue_off)
             ELSE s1
        ELSE IF s1.blue_state = "GO_TO_START"
        THEN Command3(s1, <<s.c.crane_y - PICKUP_Y>>,
                      PICKUP_X - s.c.blue_off)
        ELSE s1

\* SimulationController.step_simulation: scanners, plate, coordinator, crane
\* body, blue claw, red claw; each stage is computed once and handed on
step_simulation3(s, dt, box) ==
    LET s1 == {[s EXCEPT !.op = "step",
                  !.scanners = [i \in ScannerIds |-> update(@[i], dt, None)],
                  !.plate = plate_step(@, dt)]}
        s2 == {coordinate_movements(x, dt) : x \in s1}
        s3 == {[x EXCEPT !.crane = body_step(@, dt)] : x \in s2}
        s4 == {step_blue_claw(x, dt, box) : x \in s3}
        s5 == {step_red_claw(x, dt) : x \in s4}
    IN  CHOOSE x \in s5 : TRUE

\* the harnesses a specification does not drive stay as constructed
InitAux ==
    /\ v2 = NewV2(1, ShippedConfig2)
    /\ dual = NewDual(CHOOSE c \in DualConfigs : c.t_scan = T_SCAN)

Ids2(s) == DOMAIN s.scanners

\* the first index of ids that minimises key, as sort and min leave it
FirstMin(ids, key(_)) ==
    IF ids = {} THEN None
    ELSE CHOOSE i \in ids :
            \A j \in ids : key(i) < key(j) \/ (key(i) = key(j) /\ i <= j)

\* BlueCrane.nearest_empty_scanner (loading_strategy "closest")
nearest_empty_scanner2(s, x) ==
    LET d(i) == Abs(POS_X2(s.n, i) - x)
    IN  FirstMin({i \in Ids2(s) : s.scanners[i].state = "empty"}, d)

\* RedCrane.earliest_ready_scanner
earliest_ready_scanner(s) ==
    LET rt(i) == s.scanners[i].ready_time
    IN  FirstMin({i \in Ids2(s) : /\ s.scanners[i].state = "ready"
                                  /\ s.scanners[i].ready_time # None}, rt)

\* earliest_finishing_scan of both cranes
earliest_finishing_scan(s) ==
    LET tm(i) == s.scanners[i].timer
    IN  FirstMin({i \in Ids2(s) : s.scanners[i].state = "scanning"}, tm)

\* the departure time that ends the lowering when station i becomes ready,
\* not before now
PlannedDeparture(s, i, now) ==
    Max(TravelDen * (now + s.scanners[i].timer - T_Z2)
            - s.c.k * Abs(POS_X2(s.n, i) - s.red.x),
        TravelDen * now)

\* RedCrane.schedule_departure(t_elapsed)
schedule_departure(s) ==
    LET i_ready == earliest_ready_scanner(s)
        i_scan == earliest_finishing_scan(s)
        depart == TravelDen * (s.t_elapsed + s.scanners[i_scan].timer - T_Z2)
                    - s.c.k * Abs(POS_X2(s.n, i_scan) - s.red.x)
    IN  IF i_ready # None
        THEN [s EXCEPT !.red.target_i = i_ready,
                       !.red.departure_time = TravelDen * s.t_elapsed,
                       !.red.target_box = s.scanners[i_ready].target_box_id]
        ELSE IF i_scan = None THEN s
        ELSE IF s.red.departure_time = None \/ depart < s.red.departure_time
        THEN [s EXCEPT !.red.target_i = i_scan,
                       !.red.departure_time =
                           Max(depart, TravelDen * s.t_elapsed)]
        ELSE s

\* close_ready_wait(i)
close_ready_wait(s, i) ==
    IF s.ready_wait_start[i] # None
    THEN [s EXCEPT !.total_ready_wait =
                       @ + (s.t_elapsed - s.ready_wait_start[i]),
                   !.ready_wait_start[i] = None]
    ELSE s

\* step_sim: the stations' update and the ready-wait tracking
update_scanners(s, dt) ==
    LET sc == [i \in Ids2(s) |-> update(s.scanners[i], dt, s.t_elapsed)]
    IN  [s EXCEPT !.scanners = sc,
                  !.ready_wait_start =
                      [i \in Ids2(s) |->
                         IF sc[i].state = "ready"
                            /\ s.ready_wait_start[i] = None
                         THEN s.t_elapsed
                         ELSE IF sc[i].state # "ready" THEN None
                         ELSE s.ready_wait_start[i]]]

\* step_sim: the early-departure poll for the red crane
early_departure_poll(s) ==
    IF /\ \A i \in Ids2(s) : s.scanners[i].state = "scanning"
       /\ earliest_ready_scanner(s) = None
       /\ s.red.state = "WAIT"
       /\ s.red.departure_time = None
    THEN LET i_scan == earliest_finishing_scan(s)
         IN  [s EXCEPT !.red.target_i = i_scan,
                       !.red.departure_time =
                           PlannedDeparture(s, i_scan, s.t_elapsed)]
    ELSE s

\* a crane of Ver2 moves to new_pos unless the check of the distance fails
TooClose(s, a, b) == Abs(a - b) < s.c.safe

\* toward target: past it when the target is ahead on one side, clamped on
\* the other (the side is the blue crane's right and the red crane's left)
Pos2(x, target, step, past_right) ==
    IF past_right
    THEN IF x < target THEN x + step ELSE Max(x - step, target)
    ELSE IF x > target THEN x - step ELSE Min(x + step, target)

\* BlueCrane.step(dt, red_crane, schedule_red_callback); box is the value
\* random.randint returns inside scan
BlueStep2(s, dt, box) ==
    LET b == s.blue
        timer == b.action_timer - dt
    IN
    CASE b.state = "PICK_AT_START" /\ b.pick_phase = "LOWER" ->
           IF timer <= 0
           THEN [s EXCEPT !.blue.pick_phase = "RAISE",
                          !.blue.action_timer = T_Z2]
           ELSE [s EXCEPT !.blue.action_timer = timer]
      [] b.state = "PICK_AT_START" /\ b.pick_phase = "RAISE" ->
           IF timer <= 0
           THEN LET e == nearest_empty_scanner2(s, b.x)
                    r == FirstMin({i \in Ids2(s) :
                                     s.scanners[i].state = "ready"},
                                  LAMBDA i : i)
                    f == earliest_finishing_scan(s)
                    t == IF e # None THEN e
                         ELSE IF r # None THEN r
                         ELSE IF f # None THEN f ELSE 0
                IN  [s EXCEPT !.blue.action_timer = timer,
                              !.blue.has_diamond = TRUE,
                              !.blue.pick_phase = "None",
                              !.blue.target_i = t,
                              !.blue.state = "MOVE_TO_SCANNER"]
           ELSE [s EXCEPT !.blue.action_timer = timer]
      [] b.state = "MOVE_TO_SCANNER" ->
           LET target_i == b.target_i
               sx == POS_X2(s.n, target_i)
               want_scanner == /\ s.scanners[target_i].state = "empty"
                               /\ ~TooClose(s, b.x, s.red.x)
               staging == sx - (12 * s.c.safe) \div 10 - 10
               target_x == IF want_scanner THEN sx
                           ELSE Max(START_X2, staging)
               new_pos == Pos2(b.x, target_x, s.c.step, TRUE)
               x == IF TooClose(s, new_pos, s.red.x) THEN b.x ELSE new_pos
               alt == nearest_empty_scanner2(s, x)
               t1 == IF s.scanners[target_i].state # "empty"
                        /\ alt # None /\ alt # target_i
                     THEN alt ELSE target_i
               s1 == [s EXCEPT !.blue.x = x, !.blue.target_i = t1]
           IN  IF x = sx /\ s.scanners[target_i].state = "empty"
               THEN [s1 EXCEPT !.blue.state = "DROP_AT_SCANNER",
                               !.blue.drop_phase = "LOWER",
                               !.blue.action_timer = T_Z2]
               ELSE IF x = target_x /\ ~want_scanner
               THEN [s1 EXCEPT !.blue.state = "WAIT_AT_STAGING"]
               ELSE s1
      [] b.state = "WAIT_AT_STAGING" ->
           IF /\ s.scanners[b.target_i].state = "empty"
              /\ ~TooClose(s, b.x, s.red.x)
           THEN [s EXCEPT !.blue.state = "MOVE_TO_SCANNER"]
           ELSE s
      [] b.state = "DROP_AT_SCANNER" /\ b.drop_phase = "LOWER" ->
           IF timer <= 0
           THEN [s EXCEPT !.blue.drop_phase = "RAISE",
                          !.blue.action_timer = T_Z2,
                          !.blue.has_diamond = FALSE,
                          !.scanners[b.target_i] = scan(@, box)]
           ELSE [s EXCEPT !.blue.action_timer = timer]
      [] b.state = "DROP_AT_SCANNER" /\ b.drop_phase = "RAISE" ->
           IF timer <= 0
           THEN schedule_departure(
                    [s EXCEPT !.blue.action_timer = timer,
                              !.blue.drop_phase = "None",
                              !.blue.state = "RETURN_TO_START"])
           ELSE [s EXCEPT !.blue.action_timer = timer]
      [] b.state = "RETURN_TO_START" ->
           LET new_pos == Max(b.x - s.c.step, START_X2)
               x == IF TooClose(s, new_pos, s.red.x) THEN b.x ELSE new_pos
           IN  IF x <= START_X2
               THEN [s EXCEPT !.blue.x = x,
                              !.blue.state = "PICK_AT_START",
                              !.blue.pick_phase = "LOWER",
                              !.blue.action_timer = T_Z2]
               ELSE [s EXCEPT !.blue.x = x]
      [] OTHER -> s

\* RedCrane.step: WAIT
Red2_WAIT(s) ==
    LET i_ready == earliest_ready_scanner(s)
        d == s.red.departure_time
        should_depart == d # None /\ d <= TravelDen * s.t_elapsed
        i_scan == earliest_finishing_scan(s)
        s1 == IF /\ i_ready = None
                 /\ \A i \in Ids2(s) : s.scanners[i].state = "scanning"
                 /\ d = None
              THEN [s EXCEPT !.red.target_i = i_scan,
                             !.red.departure_time =
                                 PlannedDeparture(s, i_scan, s.t_elapsed)]
              ELSE s
        leave(t) ==
            <<t, IF t = None THEN "none" ELSE s.scanners[t].state>>
    IN  IF i_ready # None
        THEN [s1 EXCEPT !.red.target_i = i_ready,
                        !.red.target_box = s.scanners[i_ready].target_box_id,
                        !.red.state = "MOVE_TO_SCANNER",
                        !.red.departure_time = None,
                        !.departed = leave(i_ready)]
        ELSE IF should_depart
        THEN [s1 EXCEPT !.red.state = "MOVE_TO_SCANNER",
                        !.red.departure_time = None,
                        !.departed = leave(s1.red.target_i)]
        ELSE IF s1.red.departure_time = None THEN schedule_departure(s1)
        ELSE s1

\* RedCrane.step: MOVE_TO_SCANNER
Red2_MOVE_TO_SCANNER(s) ==
    LET r == s.red
        sx == POS_X2(s.n, r.target_i)
        new_pos == Pos2(r.x, sx, s.c.step, FALSE)
        x == IF TooClose(s, r.x, s.blue.x) THEN r.x ELSE new_pos
        s1 == [s EXCEPT !.red.x = x]
    IN  IF r.target_i = None THEN [s EXCEPT !.red.state = "WAIT"]
        ELSE IF x # sx THEN s1
        ELSE IF s.scanners[r.target_i].state = "ready"
        THEN [close_ready_wait(s1, r.target_i) EXCEPT
                  !.red.target_box = s.scanners[r.target_i].target_box_id,
                  !.red.state = "PICK_AT_SCANNER",
                  !.red.pick_phase = "LOWER",
                  !.red.action_timer = T_Z2,
                  !.red.time_under_scanner = 0]
        ELSE [s1 EXCEPT !.red.state = "LOWER_FOR_PICK",
                        !.red.action_timer =
                            Max(0, T_Z2 - r.time_under_scanner)]

\* RedCrane.step: LOWER_FOR_PICK
Red2_LOWER_FOR_PICK(s, dt) ==
    LET r == s.red
        s1 == [s EXCEPT !.red.action_timer = Max(0, @ - dt),
                        !.red.time_under_scanner = Min(T_Z2, @ + dt)]
    IN  IF s.scanners[r.target_i].state = "ready"
        THEN [close_ready_wait(s1, r.target_i) EXCEPT
                  !.red.target_box = s.scanners[r.target_i].target_box_id,
                  !.red.state = "PICK_AT_SCANNER",
                  !.red.pick_phase = "RAISE",
                  !.red.action_timer = T_Z2]
        ELSE s1

\* RedCrane.step: PICK_AT_SCANNER
Red2_PICK_AT_SCANNER(s, dt) ==
    LET r == s.red
        timer == r.action_timer - dt
        sc == s.scanners[r.target_i]
    IN  IF timer > 0 THEN [s EXCEPT !.red.action_timer = timer]
        ELSE IF r.pick_phase = "LOWER"
        THEN [s EXCEPT !.red.pick_phase = "RAISE", !.red.action_timer = T_Z2]
        ELSE [s EXCEPT !.red.action_timer = timer,
                       !.red.has_diamond = TRUE,
                       !.red.pick_phase = "None",
                       !.red.carried = sc.target_box_id,
                       !.scanners[r.target_i] = pickup(sc),
                       !.ready_spent =
                           IF sc.state = "ready"
                           THEN @ + (s.t_elapsed - sc.ready_time) ELSE @,
                       !.red.state = "MOVE_TO_END",
                       !.red.time_under_scanner = 0]

\* RedCrane.step: MOVE_TO_END (every box stands at END_X)
Red2_MOVE_TO_END(s) ==
    LET r == s.red
        new_pos == Min(r.x + s.c.step, END_X2)
        x == IF TooClose(s, r.x, s.blue.x) THEN r.x ELSE new_pos
    IN  IF x >= END_X2
        THEN [s EXCEPT !.red.x = x, !.red.state = "DROP_AT_END",
                       !.red.drop_phase = "LOWER",
                       !.red.action_timer = T_Z2]
        ELSE [s EXCEPT !.red.x = x]

\* a drop that counts the diamond a second time when the hoist is back up
Red2_DROP_AT_END_mut(s, dt) ==
    LET r == s.red
        timer == r.action_timer - dt
    IN  IF timer > 0 THEN [s EXCEPT !.red.action_timer = timer]
        ELSE IF r.drop_phase = "LOWER"
        THEN [s EXCEPT !.red.drop_phase = "RAISE",
                       !.red.action_timer = T_Z2,
                       !.red.has_diamond = FALSE,
                       !.boxes = IF r.target_box = None THEN @
                                 ELSE [@ EXCEPT ![r.target_box] = @ + 1],
                       !.delivered_total = @ + 1,
                       !.dropped = <<r.target_box, r.carried>>]
        ELSE [s EXCEPT !.red.action_timer = timer,
                       !.red.drop_phase = "None",
                       !.boxes = IF r.target_box = None THEN @
                                 ELSE [@ EXCEPT ![r.target_box] = @ + 1],
                       !.red.state = "RETURN_TO_SCANNER"]

\* RedCrane.step: DROP_AT_END, with Box.add_diamond and
\* add_delivered_marker at the end of LOWER
Red2_DROP_AT_END(s, dt) ==
    LET r == s.red
        timer == r.action_timer - dt
    IN  IF timer > 0 THEN [s EXCEPT !.red.action_timer = timer]
        ELSE IF r.drop_phase = "LOWER"
        THEN [s EXCEPT !.red.drop_phase = "RAISE",
                       !.red.action_timer = T_Z2,
                       !.red.has_diamond = FALSE,
                       !.boxes = IF r.target_box = None THEN @
                                 ELSE [@ EXCEPT ![r.target_box] = @ + 1],
                       !.delivered_total = @ + 1,
                       !.dropped = <<r.target_box, r.carried>>]
        ELSE [s EXCEPT !.red.action_timer = timer,
                       !.red.drop_phase = "None",
                       !.red.state = "RETURN_TO_SCANNER"]

\* RedCrane.step: RETURN_TO_SCANNER
Red2_RETURN_TO_SCANNER(s) ==
    LET r == s.red
        back_x == IF r.target_i # None THEN POS_X2(s.n, r.target_i)
                  ELSE CENTER2
        new_pos == Pos2(r.x, back_x, s.c.step, FALSE)
        x == IF TooClose(s, r.x, s.blue.x) THEN r.x ELSE new_pos
        s1 == [s EXCEPT !.red.x = x]
    IN  IF x = back_x
        THEN schedule_departure([s1 EXCEPT !.red.state = "WAIT",
                                           !.red.time_under_scanner = 0])
        ELSE s1

\* RedCrane.step(dt, t_elapsed, blue_crane, close_ready_wait,
\* add_delivered_marker)
RedStep2(s, dt) ==
    CASE s.red.state = "WAIT" -> Red2_WAIT(s)
      [] s.red.state = "MOVE_TO_SCANNER" -> Red2_MOVE_TO_SCANNER(s)
      [] s.red.state = "PICK_AT_SCANNER" -> Red2_PICK_AT_SCANNER(s, dt)
      [] s.red.state = "MOVE_TO_END" -> Red2_MOVE_TO_END(s)
      [] s.red.state = "DROP_AT_END" -> Red2_DROP_AT_END(s, dt)
      [] s.red.state = "RETURN_TO_SCANNER" -> Red2_RETURN_TO_SCANNER(s)
      [] s.red.state = "LOWER_FOR_PICK" -> Red2_LOWER_FOR_PICK(s, dt)
      [] OTHER -> s

\* step_sim(dt): the clock, the stations, the poll, blue, then red
step_sim(s, dt, box) ==
    LET s1 == [s EXCEPT !.t_elapsed = @ + dt, !.op = "step",
                        !.departed = <<>>, !.dropped = <<>>]
    IN  RedStep2(BlueStep2(early_departure_poll(update_scanners(s1, dt)),
                           dt, box), dt)

\* SimulationController.__init__ followed by the launcher's choice of speed
InitSim ==
    /\ blue = NewBlue
    /\ red = NewRed
    /\ scanners = [i \in ScannerIds |-> NewScanner]
    /\ boxes = [k \in 0..(N_BOXES - 1) |-> 0]
    /\ t_elapsed = 0
    /\ simulation_started = FALSE
    /\ diamonds_delivered = 0
    /\ diamonds_scanned = 0
    /\ total_ready_wait_time = 0
    /\ is_paused = FALSE
    /\ multiplier \in Multipliers
    /\ pc = "run"
    /\ skip = NoSkip
    /\ tokensCreated = 0
    /\ readyPlan = NoPlan
    /\ last = "init"

\* BlueCrane.step stores has_diamond = True in PICK_AT_START in this step
BluePicksFromSource(blue0, dt) ==
    /\ blue0.state = "PICK_AT_START"
    /\ blue0.pick_phase = "LOWER"
    /\ Max(0, blue0.action_timer - dt) <= 0

\* the track held red up in the step that led to r1, with blue at b1 and
\* the scanners scs: it yielded to blue, or it stood between two actions
\* (in WAIT: while a scanner stood ready that the checks of the departure,
\* would_collide_with and can_move_to_x, kept it from)
HeldUp(r1, b1, scs) ==
    \/ r1.yld
    \/ /\ r1.state = red.state
       /\ red.action_timer = 0
       /\ r1.action_timer = 0
       /\ red.pick_phase = "None" /\ r1.pick_phase = "None"
       /\ red.drop_phase = "None" /\ r1.drop_phase = "None"
       /\ red.state = "WAIT" =>
              \E i \in ScannerIds :
                  /\ scs[i].state = "ready"
                  /\ \/ would_collide_with(red, b1)
                     \/ ~can_move_to_x(ScannerX(i), b1)

\* RedCrane.step, WAIT: travel_time to the drop zone of scanner i plus
\* lower_time, from where the crane r1 stands
PlanTime(r1, i) == travel_time_2d(r1, ScannerX(i), SCANNER_Y) + T_Z

\* red is on its way to scanner i or lowering over it
PlanCommitted(r1, i) ==
    /\ r1.target_i = i
    /\ r1.state \in {"MOVE_TO_SCANNER", "LOWER_FOR_PICKUP", "PICK_AT_SCANNER"}

\* readyPlan after a step that leaves the scanners scs, red r1 and the
\* elapsed time now, and in which red saw blue at b1: a scanner that has just become ready gets the time by
\* which red can be down at it, counted as blocked from the start if red
\* has no plan for it and was held up before; a scanner that stays ready
\* keeps its time
NextPlan(scs, r1, b1, now) ==
    LET h == HeldUp(r1, b1, scs)
    IN  [held |-> readyPlan.held \/ h,
         plan |-> [i \in ScannerIds |->
            IF scs[i].state # "ready" THEN <<>>
            ELSE IF readyPlan.plan[i] = <<>>
            THEN [deadline |-> now + PlanTime(r1, i),
                  blocked |-> ~PlanCommitted(r1, i) /\ (readyPlan.held \/ h)]
            ELSE [readyPlan.plan[i] EXCEPT !.blocked = @ \/ h]]]

\* step_simulation: total_ready_wait_time after the scanners were updated,
\* dt for every scanner that is ready once the simulation has started
ReadyWait(started, scs, dt) ==
    IF started
    THEN total_ready_wait_time
         + dt * Cardinality({i \in ScannerIds : scs[i].state = "ready"})
    ELSE total_ready_wait_time

\* a step that updates the scanners after the cranes have stepped
step_simulation_mut(dt, skip_mode, box) ==
    LET started == simulation_started
                   \/ (blue.state = "PICK_AT_START" /\ blue.pick_phase = "LOWER")
        scs1 == scanners
        b1 == BlueStep(blue, red, scs1, dt)
        scs2 == BlueStepScanners(blue, scs1, dt, box)
        r1 == RedStep(red, b1, scs2, dt)
        scs3 == RedStepScanners(red, scs2, dt)
        bx1 == RedStepBoxes(red, boxes, dt)
    IN  /\ simulation_started' = started
        /\ blue' = RedStepBlue(red, b1, dt)
        /\ red' = r1
        /\ scanners' = [i \in ScannerIds |-> update(scs3[i], dt, t_elapsed)]
        /\ boxes' = bx1
        /\ diamonds_delivered' = Max(diamonds_delivered, BoxTotal(bx1))
        /\ diamonds_scanned' = Max(diamonds_scanned, ScansTotal(scs3))
        /\ total_ready_wait_time' = ReadyWait(started, scs1, dt)
        /\ t_elapsed' = IF skip_mode \/ started THEN t_elapsed + dt
                                                ELSE t_elapsed
        /\ tokensCreated' = IF BluePicksFromSource(blue, dt)
                            THEN tokensCreated + 1 ELSE tokensCreated
        /\ readyPlan' = NextPlan(scs3, r1, b1,
                                 IF skip_mode \/ started THEN t_elapsed + dt
                                                         ELSE t_elapsed)

\* SimulationController.step_simulation with the time step dt (after the
\* multiplier); box is the value random.randint returns if scan() is called
step_simulation(dt, skip_mode, box) ==
    LET started == simulation_started
                   \/ (blue.state = "PICK_AT_START" /\ blue.pick_phase = "LOWER")
        scs1 == [i \in ScannerIds |-> update(scanners[i], dt, t_elapsed)]
        b1 == BlueStep(blue, red, scs1, dt)
        scs2 == BlueStepScanners(blue, scs1, dt, box)
        r1 == RedStep(red, b1, scs2, dt)
        scs3 == RedStepScanners(red, scs2, dt)
        bx1 == RedStepBoxes(red, boxes, dt)
    IN  /\ simulation_started' = started
        /\ blue' = RedStepBlue(red, b1, dt)
        /\ red' = r1
        /\ scanners' = scs3
        /\ boxes' = bx1
        /\ diamonds_delivered' = Max(diamonds_delivered, BoxTotal(bx1))
        /\ diamonds_scanned' = Max(diamonds_scanned, ScansTotal(scs3))
        /\ total_ready_wait_time' = ReadyWait(started, scs1, dt)
        /\ t_elapsed' = IF skip_mode \/ started THEN t_elapsed + dt
                                                ELSE t_elapsed
        /\ tokensCreated' = IF BluePicksFromSource(blue, dt)
                            THEN tokensCreated + 1 ELSE tokensCreated
        /\ readyPlan' = NextPlan(scs3, r1, b1,
                                 IF skip_mode \/ started THEN t_elapsed + dt
                                                         ELSE t_elapsed)

\* the values random.randint may return in a step: one value when the step
\* does not call scan()
BoxDraws(dt) == IF BlueCallsScan(blue, dt) THEN BoxChoices
                ELSE {CHOOSE k \in BoxChoices : TRUE}

\* SimulationController.animation_update
AnimationUpdate ==
    /\ pc = "run"
    /\ ~is_paused
    /\ red.t_elapsed < MaxSeconds * UnitsPerSecond
    /\ \E box \in BoxDraws(DT * multiplier) :
           step_simulation(DT * multiplier, FALSE, box)
    /\ last' = "step"
    /\ UNCHANGED <<is_paused, multiplier, pc, skip, harnessVars>>

\* SimulationController.toggle_pause
TogglePause ==
    /\ pc = "run"
    /\ is_paused' = ~is_paused
    /\ last' = "pause"
    /\ UNCHANGED <<blue, red, scanners, boxes, t_elapsed, simulation_started,
                   diamonds_delivered, diamonds_scanned,
                   total_ready_wait_time, multiplier, pc, skip, tokensCreated,
                   readyPlan, harnessVars>>

\* a reset that leaves the scans_done of the scanners to DScanner.reset
full_reset_mut ==
    /\ t_elapsed' = 0
    /\ diamonds_delivered' = 0
    /\ diamonds_scanned' = 0
    /\ total_ready_wait_time' = 0
    /\ simulation_started' = FALSE
    /\ scanners' = [i \in ScannerIds |-> resetScanner(scanners[i])]
    /\ boxes' = [k \in DOMAIN boxes |-> 0]
    /\ blue' = NewBlue
    /\ red' = NewRed
    /\ tokensCreated' = 0
    /\ readyPlan' = NoPlan

\* SimulationController.full_reset
full_reset ==
    /\ t_elapsed' = 0
    /\ diamonds_delivered' = 0
    /\ diamonds_scanned' = 0
    /\ total_ready_wait_time' = 0
    /\ simulation_started' = FALSE
    /\ scanners' = [i \in ScannerIds |->
                       [resetScanner(scanners[i]) EXCEPT !.scans_done = 0]]
    /\ boxes' = [k \in DOMAIN boxes |-> 0]
    /\ blue' = NewBlue
    /\ red' = NewRed
    /\ tokensCreated' = 0
    /\ readyPlan' = NoPlan

\* SimulationController.skip_to_time up to the loop, for a target that is
\* not negative
skip_to_time(target_time) ==
    /\ full_reset
    /\ IF target_time * 100 <= UnitsPerSecond
       THEN /\ pc' = "run"
            /\ skip' = NoSkip
            /\ is_paused' = is_paused
       ELSE /\ pc' = "skip"
            /\ skip' = [target_time |-> target_time,
                        was_paused |-> is_paused,
                        found_scanned |-> diamonds_scanned > 0]
            /\ is_paused' = TRUE
    /\ last' = "reset"
    /\ UNCHANGED multiplier

\* the skip button with one of the target times typed into the box
SkipToTime ==
    /\ pc = "run"
    /\ \E secs \in SkipSeconds : skip_to_time(secs * UnitsPerSecond)
    /\ UNCHANGED harnessVars

\* one iteration of the loop of skip_to_time
SkipStep ==
    /\ pc = "skip"
    /\ t_elapsed < skip.target_time
    /\ \E box \in BoxDraws(DT) : step_simulation(DT, TRUE, box)
    /\ last' = "step"
    /\ UNCHANGED <<is_paused, multiplier, pc, skip, harnessVars>>

\* cleanup_after_skip: a crane in a movement state whose timer ran out is
\* forced to WAIT, and phases are cleared when the timer ran out
CleanupCrane(c) ==
    LET c0 == [c EXCEPT !.ms = NoMove]
        c1 == IF c0.state \in {"MOVE_TO_SCANNER", "MOVE_TO_BOX", "RETURN_HOME",
                               "MOVE_TO_START", "RETURN_TO_START",
                               "MOVE_OUT_OF_WAY_AFTER_RIGHT_PICKUP",
                               "MOVE_OUT_OF_WAY_AFTER_RIGHT_LOAD",
                               "MOVE_TO_BOX_THEN_RIGHT_SCANNER"}
                 /\ c0.action_timer <= 0
              THEN [c0 EXCEPT !.state = "WAIT", !.action_timer = 0]
              ELSE c0
    IN  IF c1.action_timer <= 0
        THEN [c1 EXCEPT !.pick_phase = "None", !.drop_phase = "None"]
        ELSE c1

\* cleanup_after_skip: the cranes are closer than the safe distance
SendHome(c, home_x) ==
    [c EXCEPT !.x = home_x, !.y = SCANNER_Y, !.state = "WAIT",
              !.action_timer = 0, !.has_diamond = FALSE]

\* the end of skip_to_time: cleanup_after_skip and the pause state restored
SkipEnd ==
    /\ pc = "skip"
    /\ t_elapsed >= skip.target_time
    /\ LET b1 == CleanupCrane(blue)
           r1 == CleanupCrane(red)
       IN  IF Abs(b1.x - r1.x) < D_CLAW_SAFE_DISTANCE
           THEN /\ blue' = SendHome(b1, BLUE_CRANE_HOME_X)
                /\ red' = SendHome(r1, RED_CRANE_HOME_X)
           ELSE /\ blue' = b1
                /\ red' = r1
    /\ is_paused' = skip.was_paused
    /\ pc' = "run"
    /\ skip' = NoSkip
    /\ last' = "cleanup"
    /\ UNCHANGED <<scanners, boxes, t_elapsed, simulation_started,
                   diamonds_delivered, diamonds_scanned,
                   total_ready_wait_time, multiplier, tokensCreated,
                   readyPlan, harnessVars>>

Init ==
    /\ InitSim
    /\ station = NewScanner
    /\ stVer = "Ver3"
    /\ stCall = [op |-> "none", pre |-> NewScanner, ret |-> None,
                 raised |-> FALSE]
    /\ normal = NoSnapshot
    /\ ff = NewFF("Ver2")
    /\ InitAux

Next == AnimationUpdate \/ TogglePause \/ SkipToTime \/ SkipStep \/ SkipEnd

Spec == Init /\ [][Next]_vars

\* ------------------------------------------------------------------------
\* Harness of the station: any caller, any order of calls
\* ------------------------------------------------------------------------

NoCall == [op |-> "none", pre |-> NewScanner, ret |-> None, raised |-> FALSE]

InitScanner ==
    /\ station = NewScanner
    /\ stVer \in {"Ver2", "Ver3"}
    /\ stCall = NoCall
    /\ InitSim
    /\ normal = NoSnapshot
    /\ ff = NewFF("Ver2")
    /\ InitAux

\* the times the harness passes to update as current_time
HarnessTimes == {0, DT}

CallScan ==
    \E box \in BoxChoices :
        /\ station' = scan(station, box)
        /\ stCall' = [op |-> "scan", pre |-> station, ret |-> None,
                      raised |-> FALSE]
        /\ UNCHANGED <<stVer, simVars, seekVars, auxVars>>

CallUpdate ==
    \E m \in Multipliers, now \in HarnessTimes :
        /\ station.state = "scanning"
        /\ station' = update(station, DT * m, now)
        /\ stCall' = [op |-> "update", pre |-> station, ret |-> None,
                      raised |-> FALSE]
        /\ UNCHANGED <<stVer, simVars, seekVars, auxVars>>

CallPickup ==
    /\ station.scans_done < MaxScans
    /\ station' = pickup(station)
    /\ stCall' = [op |-> "pickup", pre |-> station,
                  ret |-> IF stVer = "Ver3" THEN pickupReturn3(station)
                                            ELSE pickupReturn2(station),
                  raised |-> FALSE]
    /\ UNCHANGED <<stVer, simVars, seekVars, auxVars>>

CallReset ==
    /\ stVer = "Ver3"
    /\ station' = resetScanner(station)
    /\ stCall' = [op |-> "reset", pre |-> station, ret |-> None,
                  raised |-> FALSE]
    /\ UNCHANGED <<stVer, simVars, seekVars, auxVars>>

NextScanner == CallScan \/ CallUpdate \/ CallPickup \/ CallReset

SpecScanner == InitScanner /\ [][NextScanner]_vars

\* ------------------------------------------------------------------------
\* Harness of the Track Arbiter: the cranes are set on legs of their cycles
\* that lead toward each other, closer than the safe distance, and the
\* simulation runs from there
\* ------------------------------------------------------------------------

\* both cranes are in a travelling state, closer than the safe distance, so
\* that the plain separation check of each would block it
Contention ==
    /\ blue.state \in movement_states
    /\ red.state \in movement_states
    /\ would_collide_with(blue, red)

\* the x a crane in a movement state travels to
MoveTargetX(c) ==
    CASE c.state \in {"MOVE_TO_START", "RETURN_TO_START"} -> PICKUP_X
      [] c.state = "MOVE_TO_SCANNER" -> ScannerX(c.target_i)
      [] c.state \in {"RETURN_TO_HOME_WITH_DIAMOND", "MOVE_TO_HOME_EMPTY",
                      "MOVE_OUT_OF_WAY_AFTER_RIGHT_LOAD"} -> BLUE_CRANE_HOME_X
      [] c.state \in {"MOVE_TO_BOX", "MOVE_TO_BOX_THEN_RIGHT_SCANNER"} ->
            BoxX(c.target_box)
      [] c.state = "MOVE_OUT_OF_WAY_AFTER_RIGHT_PICKUP" -> WaitingX
      [] c.state = "RETURN_HOME" -> RED_CRANE_HOME_X
      [] OTHER -> c.x

\* the cranes travel toward each other
TowardEachOther ==
    \/ blue.x < red.x /\ MoveTargetX(blue) > blue.x /\ MoveTargetX(red) < red.x
    \/ red.x < blue.x /\ MoveTargetX(red) > red.x /\ MoveTargetX(blue) < blue.x

\* a leg is cut into this many parts; a crane is set on a cut of its leg
LegParts == 8

Along(a0, a1, k) == a0 + ((a1 - a0) * k) \div LegParts

\* the crane c in a movement state, k parts along the leg from (x0, y0) to
\* (x1, y1), with the timer the state sets from that position
OnLeg(c, state, x0, y0, x1, y1, k) ==
    LET p == [c EXCEPT !.state = state, !.x = Along(x0, x1, k),
                       !.y = Along(y0, y1, k)]
    IN  [p EXCEPT !.action_timer = travel_time_2d(p, x1, y1)]

\* the left scanner is loaded and ready, the right scanner is empty
ForcedScanners(box, picked) ==
    [i \in ScannerIds |->
        IF i = 0
        THEN [NewScanner EXCEPT !.state = "ready", !.ready_time = 0,
                                !.target_box_id = box]
        ELSE [NewScanner EXCEPT !.scans_done = picked]]

\* BlueCrane on a leg to the right: to the pickup zone from home or from the
\* left scanner, or with a diamond to the right scanner
ForcedBlue ==
    LET b == [NewBlue EXCEPT !.scanners_loaded = {0}]
    IN  UNION {
          { OnLeg([b EXCEPT !.target_i = 1], "MOVE_TO_START",
                  BLUE_CRANE_HOME_X, SCANNER_Y, PICKUP_X, PICKUP_Y, k),
            OnLeg([b EXCEPT !.target_i = 0], "RETURN_TO_START",
                  SCANNER_1_X, SCANNER_Y, PICKUP_X, PICKUP_Y, k),
            OnLeg([b EXCEPT !.target_i = 1, !.has_diamond = TRUE],
                  "MOVE_TO_SCANNER",
                  PICKUP_X, PICKUP_Y, SCANNER_2_X, SCANNER_Y, k) }
          : k \in 1..(LegParts - 1) }

\* RedCrane on a leg to the left: empty to the left scanner, or with the
\* diamond of the right scanner to its box
ForcedRed(box) ==
    UNION {
      { OnLeg([NewRed EXCEPT !.target_i = 0, !.target_box = box],
              "MOVE_TO_SCANNER",
              RED_CRANE_HOME_X, SCANNER_Y, SCANNER_1_X, SCANNER_Y, k),
        OnLeg([NewRed EXCEPT !.target_i = 1, !.target_box = box,
                             !.has_diamond = TRUE, !.from_rightmost = TRUE],
              "MOVE_TO_BOX",
              SCANNER_2_X, SCANNER_Y, BoxX(box), BoxY(box), k) }
      : k \in 1..(LegParts - 1) }

InitArbiter ==
    /\ \E box \in BoxChoices :
          /\ blue \in ForcedBlue
          /\ red \in ForcedRed(box)
          /\ scanners = ForcedScanners(box, IF red.has_diamond THEN 1 ELSE 0)
    /\ blue.x < red.x
    /\ Contention
    /\ boxes = [k \in 0..(N_BOXES - 1) |-> 0]
    /\ t_elapsed = 0
    /\ simulation_started = TRUE
    /\ diamonds_delivered = 0
    /\ diamonds_scanned = scanners[1].scans_done
    /\ total_ready_wait_time = 0
    /\ is_paused = FALSE
    /\ multiplier \in Multipliers
    /\ pc = "run"
    /\ skip = NoSkip
    /\ tokensCreated = 1 + (IF blue.has_diamond THEN 1 ELSE 0)
                         + (IF red.has_diamond THEN 1 ELSE 0)
    /\ readyPlan = NoPlan
    /\ last = "init"
    /\ station = NewScanner
    /\ stVer = "Ver3"
    /\ stCall = NoCall
    /\ normal = NoSnapshot
    /\ ff = NewFF("Ver2")
    /\ InitAux

SpecArbiter == InitArbiter /\ [][AnimationUpdate]_vars

\* ------------------------------------------------------------------------
\* Skip compared with normal stepping: the simulation steps normally from
\* the initial configuration at speed 1, then the skip button is pressed
\* with the elapsed time it has reached as the target
\* ------------------------------------------------------------------------

\* seconds of elapsed time up to which the skip is compared
MaxSeekSeconds == 8

\* what the window and the metrics show: states, positions and loads of the
\* cranes, states and timers of the scanners, the box counts, the elapsed
\* time and the total ready-wait
Snapshot ==
    [blue |-> <<blue.state, blue.x, blue.y, blue.has_diamond>>,
     red |-> <<red.state, red.x, red.y, red.has_diamond>>,
     scanners |-> [i \in ScannerIds |->
                      <<scanners[i].state, scanners[i].timer>>],
     boxes |-> boxes,
     t_elapsed |-> t_elapsed,
     total_ready_wait_time |-> total_ready_wait_time]

InitSeek ==
    /\ Init
    /\ multiplier = 1

\* animation_update while the skip button has not been pressed
StepNormally ==
    /\ normal = NoSnapshot
    /\ t_elapsed < MaxSeekSeconds * UnitsPerSecond
    /\ AnimationUpdate

\* skip_to_time with the elapsed time of the running simulation as target
SeekTo ==
    /\ pc = "run"
    /\ normal = NoSnapshot
    /\ t_elapsed > 0
    /\ normal' = Snapshot
    /\ skip_to_time(t_elapsed)
    /\ UNCHANGED <<stVars, ff, auxVars>>

NextSeek == StepNormally \/ SeekTo \/ SkipStep \/ SkipEnd

SpecSeek == InitSeek /\ [][NextSeek]_vars

\* ------------------------------------------------------------------------
\* Harness of fast_forward_to (Ver1/TwoClaw.py, Ver2/TwoClawSim/TwoClaw.py):
\* the closure variables of main() it reads and writes
\* ------------------------------------------------------------------------

\* tenths of a second up to which the harness steps and skips
MaxFFTenths == 4

\* ff_dt of fast_forward_to: 0.02 s in Ver1, 0.1 s in Ver2
ff_dt(ver) == IF ver = "Ver1" THEN UnitsPerSecond \div 50
                              ELSE UnitsPerSecond \div 10

FFTargets == {k * (UnitsPerSecond \div 10) : k \in 0..MaxFFTenths}

InitFF ==
    /\ InitSim
    /\ multiplier = 1
    /\ station = NewScanner
    /\ stVer = "Ver3"
    /\ stCall = NoCall
    /\ normal = NoSnapshot
    /\ ff \in {NewFF("Ver1"), NewFF("Ver2")}
    /\ InitAux

\* update(_) of the animation: step_sim(DT) unless paused
FFUpdate ==
    /\ ff.pc = "run"
    /\ ~ff.is_paused
    /\ ff.t_elapsed < MaxFFTenths * (UnitsPerSecond \div 10)
    /\ ff' = [ff EXCEPT !.t_elapsed = @ + DT, !.steps = @ + 1,
                        !.op = "step"]
    /\ UNCHANGED <<simVars, stVars, normal, auxVars>>

\* on_pause
FFPause ==
    /\ ff.pc = "run"
    /\ ff' = [ff EXCEPT !.is_paused = ~@, !.op = "pause"]
    /\ UNCHANGED <<simVars, stVars, normal, auxVars>>

\* reset_simulation as fast_forward_to sees it
FFReset(f) == [f EXCEPT !.t_elapsed = 0, !.steps = 0]

\* on_skip and fast_forward_to up to its loop
FastForwardTo ==
    /\ ff.pc = "run"
    /\ \E target \in FFTargets :
          LET resets == \/ target < ff.t_elapsed
                        \/ (ff.ver = "Ver2" /\ target = 0)
              f1 == IF resets THEN FFReset(ff) ELSE ff
              f2 == [f1 EXCEPT !.is_paused = TRUE, !.target = target,
                               !.t_before = ff.t_elapsed,
                               !.did_reset = resets, !.dts = {},
                               !.op = "skip"]
          IN  ff' = IF ff.ver = "Ver2" /\ resets /\ target <= 0
                    THEN f2
                    ELSE [f2 EXCEPT !.pc = "loop"]
    /\ UNCHANGED <<simVars, stVars, normal, auxVars>>

\* one iteration of the loop of fast_forward_to
FFLoopStep ==
    /\ ff.pc = "loop"
    /\ ff.target - ff.t_elapsed > 0
    /\ LET remaining == ff.target - ff.t_elapsed
           step_dt == Min(ff_dt(ff.ver), remaining)
       IN  ff' = [ff EXCEPT !.t_elapsed = @ + step_dt, !.steps = @ + 1,
                           !.dts = @ \cup {step_dt}, !.op = "loop"]
    /\ UNCHANGED <<simVars, stVars, normal, auxVars>>

\* the end of fast_forward_to
FFLoopEnd ==
    /\ ff.pc = "loop"
    /\ ff.target - ff.t_elapsed <= 0
    /\ ff' = [ff EXCEPT !.pc = "run", !.is_paused = TRUE, !.op = "end"]
    /\ UNCHANGED <<simVars, stVars, normal, auxVars>>

NextFF == FFUpdate \/ FFPause \/ FastForwardTo \/ FFLoopStep \/ FFLoopEnd

SpecFastForward == InitFF /\ [][NextFF]_vars

\* ------------------------------------------------------------------------
\* Ver2 (TwoClawSim): the launcher, the animation and the skip to 0
\* ------------------------------------------------------------------------

\* the launcher's number of scanners and the configuration
InitVer2 ==
    /\ InitSim
    /\ station = NewScanner
    /\ stVer = "Ver2"
    /\ stCall = NoCall
    /\ normal = NoSnapshot
    /\ ff = NewFF("Ver2")
    /\ multiplier = 1
    /\ v2 \in {NewV2(n, c) : n \in 1..2, c \in Configs2}
    /\ dual = NewDual(CHOOSE c \in DualConfigs : c.t_scan = T_SCAN)

\* update(_) of the animation: step_sim(DT)
StepSim ==
    /\ v2.t_elapsed < MaxSeconds2 * UnitsPerSecond
    /\ \E box \in BoxChoices : v2' = step_sim(v2, DT, box)
    /\ UNCHANGED <<simVars, stVars, seekVars, dual>>

\* on_skip with target 0: fast_forward_to resets and returns
ResetSim2 ==
    /\ v2.op = "step"
    /\ v2.delivered_total > 0
    /\ v2' = [NewV2(v2.n, v2.c) EXCEPT !.op = "reset"]
    /\ UNCHANGED <<simVars, stVars, seekVars, dual>>

NextVer2 == StepSim \/ ResetSim2

SpecVer2 == InitVer2 /\ [][NextVer2]_vars

\* ------------------------------------------------------------------------
\* The Ver3.5 simulation
\* ------------------------------------------------------------------------

\* SimulationController.__init__ of Ver3.5 under each configuration
InitDual ==
    /\ InitSim
    /\ station = NewScanner
    /\ stVer = "Ver3"
    /\ stCall = NoCall
    /\ normal = NoSnapshot
    /\ ff = NewFF("Ver2")
    /\ multiplier = 1
    /\ v2 = NewV2(1, ShippedConfig2)
    /\ dual \in {NewDual(c) : c \in DualConfigs}

\* animation_update of a simulation that is not paused: step_simulation(DT)
StepDual ==
    /\ \E box \in BoxChoices : dual' = step_simulation3(dual, DT, box)
    /\ UNCHANGED <<simVars, stVars, seekVars, v2>>

\* skip_to_time with target 0: full_reset and return
ResetDual ==
    /\ dual.op = "step"
    /\ dual' = [NewDual(dual.c) EXCEPT !.op = "reset"]
    /\ UNCHANGED <<simVars, stVars, seekVars, v2>>

NextDual == StepDual \/ ResetDual

SpecDual == InitDual /\ [][NextDual]_vars

\* FuncAnimation calls animation_update for every frame
SpecDualFair == SpecDual /\ WF_vars(StepDual)

\* ------------------------------------------------------------------------
\* Properties
\* ------------------------------------------------------------------------

\* the last step of the behaviour was a tick: step_simulation ran
Ticked == last' = "step"

Separated == Abs(blue.x - red.x) >= D_CLAW_SAFE_DISTANCE

\* C1: after every step the distance between the loader (blue) and the
\* unloader (red) is at least the minimum separation.
C1_MinSeparation == Separated

\* C2: in a tick in which a crane's position changes, that crane evaluated
\* the arbiter (should_yield_to) before it changed the position.
C2_ArbiterBeforeMove ==
    [][Ticked =>
        /\ (blue'.x # blue.x => blue'.chk)
        /\ (red'.x # red.x => red'.chk)]_vars

\* tokens held by a crane or sitting in a scanner
InFlight ==
    (IF blue.has_diamond THEN 1 ELSE 0) + (IF red.has_diamond THEN 1 ELSE 0)
    + Cardinality({i \in ScannerIds : scanners[i].state # "empty"})

\* C3: at every tick, inside a skip and after its clean-up too, the tokens
\* picked up at the source are the tokens delivered plus the tokens in flight.
C3_Conservation == tokensCreated = BoxTotal(boxes) + InFlight

C5_PriorityTotal ==
    Contention =>
        /\ has_priority_over(blue, red) # has_priority_over(red, blue)
        /\ (blue.has_diamond /\ ~red.has_diamond => has_priority_over(red, blue))
        /\ (red.has_diamond /\ ~blue.has_diamond => has_priority_over(blue, red))
        /\ (blue.has_diamond = red.has_diamond => has_priority_over(blue, red))

\* the arbiter ran under contention with only blue holding a diamond
C5_Witness ==
    /\ Contention
    /\ last = "step"
    /\ blue.chk
    /\ blue.has_diamond /\ ~red.has_diamond
    /\ has_priority_over(red, blue)

\* the y a crane in a movement state travels to
MoveTargetY(c) ==
    CASE c.state \in {"MOVE_TO_START", "RETURN_TO_START"} -> PICKUP_Y
      [] c.state \in {"MOVE_TO_BOX", "MOVE_TO_BOX_THEN_RIGHT_SCANNER"} ->
            BoxY(c.target_box)
      [] c.state = "MOVE_OUT_OF_WAY_AFTER_RIGHT_PICKUP" -> WaitingY(c)
      [] OTHER -> SCANNER_Y

\* in a tick in which the crane c yields (d is the crane after the tick) it
\* keeps position and state, and its timer is the travel time from where it
\* stands
YieldKeeps(c, d) ==
    d.yld =>
        /\ d.x = c.x /\ d.y = c.y /\ d.state = c.state
        /\ d.ms = NoMove
        /\ d.action_timer = travel_time_2d(c, MoveTargetX(c), MoveTargetY(c))

\* in the tick after a yield in which the crane c moves, the move starts
\* where it stands and lasts the travel time from there
ResumeRecomputed(c, d) ==
    (c.yld /\ ~d.yld /\ d.ms # NoMove) =>
        d.ms = <<c.x, c.y, travel_time_2d(c, MoveTargetX(c), MoveTargetY(c))>>

\* C6: a crane that yields in a tick keeps its position and its state in this
\* tick, and when it moves again its travel time is recomputed from its
\* current position.
C6_YieldKeeps ==
    [][(Ticked /\ last = "step") =>
        /\ YieldKeeps(blue, blue') /\ YieldKeeps(red, red')
        /\ ResumeRecomputed(blue, blue') /\ ResumeRecomputed(red, red')]_vars

\* red yielded in the last tick on its way with a diamond
C6_Witness == last = "step" /\ red.yld /\ red.state = "MOVE_TO_BOX"

\* C7: the sink assigned to a station (target_box_id) is not None exactly
\* when the station is not empty, after scan, update, pickup and reset.
C7_AssignedIffNotEmpty ==
    (station.target_box_id # None) <=> (station.state # "empty")

\* a pickup has just emptied a ready station
C7_Witness ==
    /\ stCall.op = "pickup"
    /\ stCall.pre.state = "ready" /\ stCall.pre.target_box_id # None
    /\ station.state = "empty" /\ station.target_box_id = None

\* the last call was a scan on a station that was not empty, or a pickup on
\* a station that was not ready
InvalidCall ==
    \/ stCall.op = "scan" /\ stCall.pre.state # "empty"
    \/ stCall.op = "pickup" /\ stCall.pre.state # "ready"

\* C8: a scan on a station that is not empty and a pickup on a station that
\* is not ready fail with an error raised to the caller.
C8_InvalidTransitionRaised == InvalidCall => stCall.raised

\* the last call was a pickup on a ready station
PickupOnReady == stCall.op = "pickup" /\ stCall.pre.state = "ready"

C10_Lifecycle ==
    [][(station'.state # station.state /\ stCall'.op # "reset") =>
        \/ /\ station.state = "empty" /\ station'.state = "scanning"
           /\ stCall'.op = "scan"
           /\ station'.timer = T_SCAN
        \/ /\ station.state = "scanning" /\ station'.state = "ready"
           /\ stCall'.op = "update"
           /\ station'.timer <= 0
           /\ station'.ready_time \in HarnessTimes
        \/ /\ station.state = "ready" /\ station'.state = "empty"
           /\ stCall'.op = "pickup"
           /\ station'.timer = 0
           /\ station'.target_box_id = None]_vars

\* the tick in which blue, lowered at a scanner, calls scan() on it
DepositTick ==
    /\ Ticked
    /\ blue.state = "DROP_AT_SCANNER" /\ blue'.state = "DROP_AT_SCANNER"
    /\ blue.drop_phase = "LOWER" /\ blue'.drop_phase = "RAISE"

\* C11: a scanner never holds more than one diamond: blue deposits only into
\* a scanner that is empty at the moment of the deposit, and the scanner
\* holds that one diamond afterwards.
C11_DepositIntoEmpty ==
    [][DepositTick =>
        /\ scanners[blue.target_i].state = "empty"
        /\ scanners'[blue.target_i].state = "scanning"
        /\ scanners'[blue.target_i].timer = T_SCAN]_vars

\* the dt of the tick that starts in this state
TickDt == IF pc = "skip" THEN DT ELSE DT * multiplier

\* C12: a tick advances the simulated time by dt and then, once each and in
\* this order, updates the scanners and steps the cranes: a scanner that
\* becomes ready in the tick records the advanced time, every scanning
\* scanner and the red crane have counted dt once.
C12_TickOrder ==
    [][Ticked =>
        /\ t_elapsed' = t_elapsed + TickDt
        /\ red'.t_elapsed = red.t_elapsed + TickDt
        /\ \A i \in ScannerIds :
              scanners[i].state = "scanning" =>
                  /\ scanners'[i].timer = scanners[i].timer - TickDt
                  /\ (scanners'[i].state # "scanning" =>
                          scanners'[i].ready_time = t_elapsed + TickDt)]_vars

\* red has lowered over scanner i, which is scanning and finishes in the
\* tick that starts in this state
RedHoldsOver(i) ==
    /\ red.state = "LOWER_FOR_PICKUP"
    /\ red.target_i = i
    /\ red.action_timer <= TickDt
    /\ scanners[i].state = "scanning"
    /\ scanners[i].timer <= TickDt

\* C13: the scanners are updated before the cranes read them: when the
\* scanner red holds over finishes in a tick, red picks the diamond up in
\* that same tick.
C13_ReadySeenSameTick ==
    [][\A i \in ScannerIds :
          (Ticked /\ RedHoldsOver(i)) =>
              /\ red'.state = "PICK_AT_SCANNER"
              /\ red'.pick_phase = "RAISE"
              /\ red'.has_diamond
              /\ red'.target_box = scanners[i].target_box_id
              /\ scanners'[i].state = "empty"
              /\ scanners'[i].scans_done = scanners[i].scans_done + 1]_vars

\* red, which stood lowered over a scanning scanner, has picked the diamond
\* up in the tick in which the scanner became ready
C13_Witness ==
    /\ last = "step"
    /\ red.hold
    /\ red.state = "PICK_AT_SCANNER"
    /\ red.pick_phase = "RAISE"
    /\ red.action_timer = T_Z
    /\ red.has_diamond
    /\ scanners[red.target_i].state = "empty"

\* the scanners the cranes find ready in the tick that starts in this state
ReadyInTick ==
    {i \in ScannerIds :
        \/ scanners[i].state = "ready"
        \/ scanners[i].state = "scanning" /\ scanners[i].timer <= TickDt}

\* the time at which scanner i of ReadyInTick became ready
ReadyAt(i) ==
    IF scanners[i].state = "ready" THEN scanners[i].ready_time ELSE t_elapsed

\* red waits while both scanners are scanning, and leaves in this tick
LeavesWhileBothScan ==
    /\ Ticked
    /\ red.state = "WAIT"
    /\ \A i \in ScannerIds : scanners[i].state = "scanning"
                             /\ scanners[i].timer > TickDt
    /\ red'.state = "MOVE_TO_SCANNER"

\* red waits, a scanner is ready, and the arbiter permits the approach to
\* every ready scanner
IdleWithReady ==
    /\ Ticked
    /\ red.state = "WAIT"
    /\ ReadyInTick # {}
    /\ ~would_collide_with(red, blue')
    /\ \A i \in ReadyInTick : can_move_to_x(ScannerX(i), blue')

\* C14: when red waits and a scanner is ready, red leaves in that tick for
\* the ready scanner that became ready first; of two scanning scanners red
\* leaves for the one that finishes first.
C14_EarliestReadyFirst ==
    [][/\ IdleWithReady =>
            /\ red'.state = "MOVE_TO_SCANNER"
            /\ red'.target_i \in ReadyInTick
            /\ \A j \in ReadyInTick : ReadyAt(red'.target_i) <= ReadyAt(j)
       /\ LeavesWhileBothScan =>
            \A j \in ScannerIds :
                scanners[red'.target_i].timer <= scanners[j].timer]_vars

\* the departure time for scanner i in the tick that starts in this state:
\* predicted ready time minus lowering time minus travel time from where
\* red stands
DepartureTime(i) ==
    red.t_elapsed + scanners[i].timer
        - travel_time_2d(red, ScannerX(i), SCANNER_Y) - T_Z

Scanning == {i \in ScannerIds : scanners[i].state = "scanning"}

\* C15: with no scanner ready, the scanner red leaves WAIT for is the
\* scanning scanner with the least departure time, the lower index on a tie.
C15_MinDepartureTime ==
    [][(/\ Ticked
        /\ red.state = "WAIT"
        /\ ReadyInTick = {}
        /\ red'.state = "MOVE_TO_SCANNER")
       => /\ red'.target_i \in Scanning
          /\ \A j \in Scanning :
                \/ DepartureTime(red'.target_i) < DepartureTime(j)
                \/ /\ DepartureTime(red'.target_i) = DepartureTime(j)
                   /\ red'.target_i <= j]_vars

\* the departure time for scanner i as red computes it in the tick that
\* ends in the primed state
SeenDepartureTime(i) ==
    red'.t_elapsed + scanners'[i].timer
        - travel_time_2d(red, ScannerX(i), SCANNER_Y) - T_Z

\* the arbiter lets red approach scanner i in the tick
Permitted(i) ==
    ~would_collide_with(red, blue') /\ can_move_to_x(ScannerX(i), blue')

\* red leaves WAIT for a scanner in the tick
LeavesWait == Ticked /\ red.state = "WAIT" /\ red'.state = "MOVE_TO_SCANNER"

\* red stays in WAIT in the tick
StaysInWait == Ticked /\ red.state = "WAIT" /\ red'.state = "WAIT"

\* the departure time has come and the arbiter has permitted the approach
DepartsWhenDue ==
    LeavesWait => /\ red'.t_elapsed >= SeenDepartureTime(red'.target_i)
                  /\ Permitted(red'.target_i)

\* a red that stays keeps its target and the departure times it has stored
KeepsPlan ==
    StaysInWait =>
        /\ red'.target_i = red.target_i
        /\ \A i \in DOMAIN red.departure_times :
              /\ i \in DOMAIN red'.departure_times
              /\ red'.departure_times[i] = red.departure_times[i]

\* C16: red leaves WAIT for a scanner only in a tick in which the departure
\* time of that scanner has come and the arbiter permits the approach;
\* otherwise it stays in WAIT and keeps its plan.
C16_DepartWhenDue == [][DepartsWhenDue /\ KeepsPlan]_vars

\* red is on its way to its target scanner or lowering over it, the diamond
\* not yet picked up
Committed(r) ==
    \/ r.state \in {"MOVE_TO_SCANNER", "LOWER_FOR_PICKUP"}
    \/ r.state = "PICK_AT_SCANNER" /\ r.pick_phase = "LOWER"

\* red has picked up the diamond of its target scanner
PickedUp(r) ==
    r.state = "PICK_AT_SCANNER" /\ r.pick_phase = "RAISE" /\ r.has_diamond

\* C17: from leaving WAIT for a scanner until the pickup of its diamond red
\* keeps its target scanner; it gives the target up only to return home
\* from a scanner found empty.
C17_NoRetarget ==
    [][(Committed(red) /\ last' # "reset") =>
          /\ red'.target_i = red.target_i
          /\ \/ Committed(red')
             \/ PickedUp(red')
             \/ /\ red'.state = "RETURN_HOME"
                /\ scanners'[red.target_i].state = "empty"]_vars

\* red, committed to the right scanner, has picked up its diamond
C17_Witness ==
    /\ last = "step"
    /\ PickedUp(red)
    /\ red.action_timer = T_Z
    /\ red.target_i = 1
    /\ red.from_rightmost
    /\ scanners[1].state = "empty"
    /\ scanners[1].scans_done > 0

\* red, arrived over a scanner that is still scanning, starts to lower
StartsLowerForPickup ==
    /\ Ticked
    /\ red.state = "MOVE_TO_SCANNER"
    /\ red'.state = "LOWER_FOR_PICKUP"

\* C18: red starts to lower over a scanner that is not ready only if the
\* time to arrive (none is left on arrival) plus the lowering time is less
\* than the time the scanner still needs.
C18_EarlyLowerOnlyIfInTime ==
    [][StartsLowerForPickup =>
          0 + T_Z < scanners'[red'.target_i].timer]_vars

\* red is in LOWER_FOR_PICKUP and is at the bottom in the tick that starts
\* in this state
AtBottom ==
    /\ Ticked
    /\ red.state = "LOWER_FOR_PICKUP"
    /\ red.action_timer <= TickDt

\* red stays lowered over its scanner and takes nothing
HoldsAtBottom ==
    /\ red'.state = "LOWER_FOR_PICKUP"
    /\ red'.pick_phase = "LOWER"
    /\ red'.action_timer = 0
    /\ ~red'.has_diamond
    /\ red'.x = red.x /\ red'.y = red.y
    /\ scanners'[red.target_i].state = "scanning"
    /\ scanners'[red.target_i].scans_done = scanners[red.target_i].scans_done

\* red takes the diamond of its scanner and starts to raise
PicksAndRaises ==
    /\ PickedUp(red')
    /\ red'.action_timer = T_Z
    /\ scanners'[red.target_i].state = "empty"
    /\ scanners'[red.target_i].scans_done =
           scanners[red.target_i].scans_done + 1

\* C19: red at the bottom over a scanner that is still scanning holds there,
\* without pickup and without raising; in the tick in which the scanner is
\* ready it picks the diamond up and goes straight on to raising.
C19_HoldThenPick ==
    [][AtBottom =>
          IF red.target_i \in ReadyInTick THEN PicksAndRaises
                                          ELSE HoldsAtBottom]_vars

\* red has stood at the bottom over a scanning scanner for a whole tick
C19_Witness ==
    /\ last = "step"
    /\ red.hold
    /\ red.state = "LOWER_FOR_PICKUP"
    /\ red.action_timer = 0
    /\ ~red.has_diamond
    /\ scanners[red.target_i].state = "scanning"

\* crane c, lowered for a pick, turns to raising in the step to d
PickBoundary(c, d) ==
    c.pick_phase = "LOWER" /\ d.pick_phase = "RAISE" /\ d.action_timer = T_Z

\* crane c, lowered for a drop, turns to raising in the step to d
DropBoundary(c, d) ==
    c.drop_phase = "LOWER" /\ d.drop_phase = "RAISE" /\ d.action_timer = T_Z

\* the held flag of a crane changes only at the boundary, and a crane past
\* the boundary of a pick holds a diamond, past that of a drop holds none
FlagAtBoundary(c, d) ==
    /\ (~c.has_diamond /\ d.has_diamond) => PickBoundary(c, d)
    /\ (c.has_diamond /\ ~d.has_diamond) => DropBoundary(c, d)
    /\ PickBoundary(c, d) => d.has_diamond
    /\ DropBoundary(c, d) => ~d.has_diamond

\* C20 (Ver3): in every tick the held flag of a crane changes only when the crane
\* turns from lowering to raising, and a scanner is loaded, a scanner
\* is unloaded or a box takes a diamond exactly in such a tick of the crane
\* that does it.
C20_TransferAtBoundary ==
    [][Ticked =>
        /\ FlagAtBoundary(blue, blue')
        /\ FlagAtBoundary(red, red')
        /\ \A i \in ScannerIds :
              /\ (scanners[i].state = "empty" /\ scanners'[i].state # "empty")
                    => DropBoundary(blue, blue') /\ blue.target_i = i
              /\ scanners'[i].scans_done # scanners[i].scans_done
                    => PickBoundary(red, red') /\ red.target_i = i
        /\ \A k \in DOMAIN boxes :
              boxes'[k] # boxes[k]
                    => DropBoundary(red, red') /\ red.target_box = k]_vars

\* red has just turned from lowering to raising over its box, and the box
\* has taken the diamond
C20_Witness ==
    /\ last = "step"
    /\ red.state \in {"DROP_AT_BOX", "DROP_AT_BOX_THEN_RIGHT_SCANNER"}
    /\ red.drop_phase = "RAISE"
    /\ red.action_timer = T_Z
    /\ ~red.has_diamond
    /\ boxes[red.target_box] = 1

\* crane c is raising its hoist after a pick or a drop
Raising(c) == c.pick_phase = "RAISE" \/ c.drop_phase = "RAISE"

\* C21: a crane that is raising does not go on to a travelling or waiting
\* state in the same tick: it stays in its pick or drop state for a dwell
\* after the raise.
C21_SettleAfterRaise ==
    [][Ticked =>
        /\ (Raising(blue) => blue'.state = blue.state)
        /\ (Raising(red) => red'.state = red.state)]_vars

\* the states in which red travels to a box
ToBoxStates == {"MOVE_TO_BOX", "MOVE_TO_BOX_THEN_RIGHT_SCANNER"}

\* red, holding the diamond of scanner red.target_i, sets off for the box
StartsToBox ==
    /\ Ticked
    /\ red.has_diamond
    /\ red.state \in {"PICK_AT_SCANNER", "WAIT_FOR_BLUE_TO_LOAD_RIGHT"}
    /\ red'.state \in ToBoxStates

\* C22: red, having emptied a scanner, does not set off for the box before
\* blue has loaded that scanner again.
C22_WaitForRefill ==
    [][StartsToBox => scanners'[red.target_i].state # "empty"]_vars

\* blue is idle while red waits for the right scanner, which is empty, to be
\* loaded
IdleWhileRedWaits ==
    /\ Ticked
    /\ blue.state \in {"WAIT", "WAIT_AT_HOME"}
    /\ red_waits_for_right_load(red)
    /\ scanners[1].state = "empty"

\* C23: an idle blue, while red waits for the right scanner to be loaded,
\* takes the right scanner as its target and does nothing else than set off
\* to load it.
C23_RefillFirst ==
    [][IdleWhileRedWaits =>
          /\ blue'.target_i = 1
          /\ blue'.state \in {blue.state, "MOVE_TO_SCANNER", "MOVE_TO_START"}]_vars

\* blue, idle while red waited, has set off to load the right scanner
C23_Witness ==
    /\ last = "step"
    /\ red_waits_for_right_load(red)
    /\ scanners[1].state = "empty"
    /\ blue.state \in {"MOVE_TO_SCANNER", "MOVE_TO_START"}
    /\ blue.target_i = 1
    /\ blue.ms = NoMove
    /\ ~blue.chk

\* a crane gives up the diamond it holds only when it turns from lowering
\* to raising in a drop
TokenKept(c, d) == (c.has_diamond /\ ~d.has_diamond) => DropBoundary(c, d)

\* the box of the diamond red holds stays the same
BoxKept == (red.has_diamond /\ red'.has_diamond) =>
               red'.target_box = red.target_box

\* a crane in the middle of lowering or raising stays in its pick or drop
\* state and phase until the timer of the phase has run out
PhaseRuns(c, d) ==
    (/\ c.pick_phase # "None" \/ c.drop_phase # "None"
     /\ c.action_timer > TickDt)
    => /\ d.state = c.state
       /\ d.pick_phase = c.pick_phase
       /\ d.drop_phase = c.drop_phase

\* C24: on every step but a reset (the clean-up after a skip included) a
\* crane keeps the diamond it holds until the drop, red keeps the box the
\* diamond goes to, and a lowering or raising that has started runs on.
C24_RunsToCompletion ==
    [][last' # "reset" =>
          /\ TokenKept(blue, blue') /\ TokenKept(red, red')
          /\ BoxKept
          /\ PhaseRuns(blue, blue') /\ PhaseRuns(red, red')]_vars

NextScanners(dt, box) ==
    RedStepScanners(red,
        BlueStepScanners(blue,
            [i \in ScannerIds |-> update(scanners[i], dt, t_elapsed)],
            dt, box),
        dt)

\* C26: a tick has one outcome: from the same state and with the same dt the
\* scanners (state, timer, box assigned) are the same whatever
\* random.randint returns in scan().
C26_Deterministic ==
    [][Ticked => \A box \in BoxChoices :
                    scanners' = NextScanners(TickDt, box)]_vars

\* C27: the state the skip leaves at its target time is the state normal
\* stepping from the initial configuration showed at that elapsed time: the
\* states, positions and loads of the cranes, the states and timers of the
\* scanners, the box counts, the elapsed time and the total ready-wait
C27_SeekEqualsStepping ==
    (last = "cleanup" /\ normal # NoSnapshot) => Snapshot = normal

\* C28: a call of fast_forward_to leaves the freshly reset simulation
\* behind before its loop runs, also when the target lies after the
\* current time, and every iteration of its loop passes the same time step
C28_ResetThenFixedDt ==
    [][/\ ff'.op = "skip" => (ff'.t_elapsed = 0 /\ ff'.steps = 0)
       /\ ff'.op = "loop" => Cardinality(ff'.dts) = 1]_vars

\* C29: after a reset the cranes, the scanners (state, timer, ready time,
\* box assignment, scans done), the box counts, the elapsed time, the
\* delivered and scanned counts, the total ready-wait and the departure
\* plan of red have the values the constructor gave them
C29_ResetRestoresInit ==
    [][last' = "reset" =>
          /\ blue' = NewBlue
          /\ red' = NewRed
          /\ scanners' = [i \in ScannerIds |-> NewScanner]
          /\ boxes' = [k \in 0..(N_BOXES - 1) |-> 0]
          /\ t_elapsed' = 0
          /\ simulation_started' = FALSE
          /\ diamonds_delivered' = 0
          /\ diamonds_scanned' = 0
          /\ total_ready_wait_time' = 0]_vars

\* the skip button was pressed after scans had been counted: the reset has
\* run and the loop of the skip is about to start
C29_Witness ==
    /\ last = "reset"
    /\ pc = "skip"
    /\ skip.found_scanned
    /\ scanners = [i \in ScannerIds |-> NewScanner]
    /\ blue = NewBlue
    /\ red = NewRed
    /\ t_elapsed = 0

C31_ReadyWaitIsSum ==
    (\A i \in Ids2(v2) : v2.scanners[i].state # "ready") =>
        /\ v2.total_ready_wait <= v2.ready_spent
        /\ v2.total_ready_wait + DT * (v2.delivered_total + 1)
              >= v2.ready_spent

\* C32: when red's dispatcher (WAIT) runs in a tick in which no scanner is
\* scanning or ready, red stays in WAIT where it is
C32_NoStationStaysIdle ==
    [][(/\ Ticked
        /\ red.state = "WAIT"
        /\ \A i \in ScannerIds : /\ scanners[i].state = "empty"
                                 /\ scanners'[i].state = "empty")
       => (/\ red'.state = "WAIT"
           /\ red'.x = red.x
           /\ red'.y = red.y)]_vars

\* blue carries the first diamond to a scanner; the tick ran red's
\* dispatcher with both scanners empty and red is in WAIT at home
C32_Witness ==
    /\ last = "step"
    /\ simulation_started
    /\ blue.has_diamond
    /\ red.state = "WAIT"
    /\ red.x = RED_CRANE_HOME_X
    /\ red.t_elapsed > 0
    /\ \A i \in ScannerIds : scanners[i].state = "empty"

\* C33: with a malformed configuration (a minimum separation larger than
\* the track, a value that is not positive) no tick is ever executed
C33_MalformedNeverTicks ==
    (v2.c.safe <= 0 \/ v2.c.step <= 0 \/ v2.c.safe > END_X2 - START_X2)
        => v2.t_elapsed = 0

\* the simulation of Ver2 without its clock and what is derived from it
Rest2(s) ==
    [s EXCEPT !.t_elapsed = 0, !.total_ready_wait = 0, !.ready_spent = 0,
              !.ready_wait_start = [i \in DOMAIN @ |-> None],
              !.departed = <<>>, !.dropped = <<>>]

\* C34: no state is reached from which both cranes wait forever: a tick
\* that finds no departure planned never leaves both cranes, the stations
\* and the boxes as they were, a token still to be moved (such a tick
\* repeats forever, the clock being all that changes)
C34_NoStandstill ==
    [][(/\ v2.op = "step"
        /\ v2'.op = "step"
        /\ v2.red.departure_time = None)
       => Rest2(v2') # Rest2(v2)]_vars

\* C36: the box whose count goes up when red deposits a diamond is the box
\* that the scanner had assigned to that diamond when it was loaded, as read
\* at the pickup.
C36_SinkIsAssigned ==
    [][(Ticked /\ RedCallsAddDiamond(red, TickDt))
       => /\ red.carried \in DOMAIN boxes
          /\ boxes'[red.carried] = boxes[red.carried] + 1]_vars

\* C37: red leaves WAIT for a scanner only if that scanner is scanning or
\* ready in that tick; a departure time stored for a scanner that has been
\* emptied since sends red nowhere.
C37_DepartsTowardWork ==
    [][(/\ Ticked /\ red.state = "WAIT" /\ red'.state = "MOVE_TO_SCANNER")
       => /\ red'.target_i \in ScannerIds
          /\ scanners'[red'.target_i].state \in {"scanning", "ready"}]_vars

\* red has left WAIT a second time, after a delivery, for a scanner at work
C37_Witness ==
    /\ last = "step" /\ red.state = "MOVE_TO_SCANNER" /\ ~red.has_diamond
    /\ diamonds_delivered > 0 /\ red.target_i \in ScannerIds
    /\ scanners[red.target_i].state \in {"scanning", "ready"}
    /\ red.action_timer = travel_time_2d(red, ScannerX(red.target_i), SCANNER_Y)

\* red lets go of its diamond over the boxes in the step from s to t
Deposit2(s, t) ==
    s.red.state = "DROP_AT_END" /\ s.red.has_diamond /\ ~t.red.has_diamond

C40_ClocksAgree == last = "step" => red.t_elapsed = t_elapsed

\* C35: in the dual-claw variant, whenever the red claw has entered
\* WAIT_FOR_BLUE_REFILL it leaves it again: the blue claw deposits into the
\* scanner red has just emptied and red goes on to its box (or the
\* simulation is reset).
C35_RefillEnds ==
    (dual.red_state = "WAIT_FOR_BLUE_REFILL")
        ~> \/ dual.op = "reset"
           \/ /\ dual.red_state = "MOVE_TO_BOX"
              /\ dual.scanners[dual.red_source_scanner].state = "scanning"

\* red, that waited for the refill after a pickup made while blue was still
\* on its first round, has left for its box in the tick in which blue let
\* go of the diamond over the scanner red had emptied
C35_Witness ==
    /\ dual.op = "step" /\ dual.red_state = "MOVE_TO_BOX"
    /\ dual.red_has_diamond /\ ~dual.red_waiting_for_blue_refill
    /\ dual.blue_state = "DROP_AT_SCANNER" /\ dual.blue_phase = "RAISE"
    /\ dual.blue_timer = T_Z
    /\ dual.blue_target_scanner = dual.red_source_scanner
    /\ dual.scanners[dual.red_source_scanner].state = "scanning"
    /\ dual.c.t_scan < T_SCAN

\* a claw of the dual-claw crane is lowering, waiting at the bottom, raising
\* or settling
ClawInPhase3(s) == s.blue_phase # "None" \/ s.red_phase # "None"

\* C38: in the dual-claw variant, in a tick that finds a claw lowering,
\* waiting at the bottom, raising or settling, the coordinator gives no
\* movement command and neither the crane body nor the plate changes
\* position.
C38_StillWhileClawActs ==
    [][(dual'.op = "step" /\ ClawInPhase3(dual))
       => /\ ~dual'.cmd
          /\ dual'.crane.x = dual.crane.x
          /\ dual'.crane.crane_state = "IDLE"
          /\ dual'.plate.y = dual.plate.y
          /\ dual'.plate.state = "IDLE"]_vars

\* red raises the diamond it has just picked while blue, called for the
\* refill, waits for the crane to be moved
C38_Witness ==
    /\ dual.op = "step" /\ dual.red_state = "PICK_AT_SCANNER"
    /\ dual.red_phase = "RAISE" /\ dual.red_timer < T_Z
    /\ dual.blue_state = "MOVE_TO_SCANNER"
    /\ dual.blue_target_scanner = dual.red_source_scanner
    /\ Abs(dual.crane.x + dual.c.blue_off
             - ScannerX(dual.blue_target_scanner)) > 2 * PU
    /\ ~dual.cmd

\* the held flag of Ver2 crane c changes between s and t only as the crane
\* turns from lowering to raising
FlagAtBoundary2(c, d) ==
    d.has_diamond # c.has_diamond
        => \/ c.pick_phase = "LOWER" /\ d.pick_phase = "RAISE"
           \/ c.drop_phase = "LOWER" /\ d.drop_phase = "RAISE"

\* C20 (Ver2): in every tick of the Ver2 simulation the held flag of a crane
\* changes, and a scanner is unloaded, only when the crane turns from
\* lowering to raising.
C20_TransferAtBoundary2 ==
    [][v2'.op = "step" =>
        /\ FlagAtBoundary2(v2.blue, v2'.blue)
        /\ FlagAtBoundary2(v2.red, v2'.red)
        /\ \A i \in DOMAIN v2.scanners :
              (v2.scanners[i].state # "empty" /\ v2'.scanners[i].state = "empty")
                  => /\ v2.red.pick_phase = "LOWER"
                     /\ v2'.red.pick_phase = "RAISE"]_vars

\* blue has just deposited a diamond into the right scanner
C11_Witness ==
    /\ last = "step"
    /\ blue.state = "DROP_AT_SCANNER" /\ blue.drop_phase = "RAISE"
    /\ blue.action_timer = T_Z /\ ~blue.has_diamond
    /\ blue.target_i = 1
    /\ scanners[1].state = "scanning" /\ scanners[1].timer = T_SCAN

====
